---- MODULE Spec2Model ----
(***************************************************************************)
(* Model of the note versioning / optimistic-locking engine of the         *)
(* note-taking backend (src/src/controllers/noteController.js), with the   *)
(* Redis note cache (src/src/cache/noteCache.js).                          *)
(*                                                                         *)
(* Every request handler is an async function; one action of the model is  *)
(* one resumption of the handler at an `await`, i.e. one database or cache *)
(* statement.  The relational store is modelled with committed tables, a   *)
(* per-transaction write buffer that is applied at commit, and an          *)
(* exclusive row lock per Note row (SELECT ... FOR UPDATE, UPDATE, DELETE).*)
(* Every statement may throw (lock timeout, deadlock victim, connection    *)
(* loss); the handler's catch block then rolls back and rethrows.          *)
(***************************************************************************)
EXTENDS Integers, Sequences, FiniteSets, TLC

(***************************************************************************)
(* Bounds of the model                                                     *)
(***************************************************************************)
NumProcs == 2
MaxNotes == 2
MaxVersion == 3
CoreNotes == 1

Procs == 1..NumProcs
NoteIds == 1..MaxNotes
Users == {1, 2}

(***************************************************************************)
(* parseInt / validator isInt                                              *)
(***************************************************************************)
Digits == {"0", "1", "2", "3", "4", "5", "6", "7", "8", "9"}

DigitVal(c) ==
  CASE c = "0" -> 0 [] c = "1" -> 1 [] c = "2" -> 2 [] c = "3" -> 3
    [] c = "4" -> 4 [] c = "5" -> 5 [] c = "6" -> 6 [] c = "7" -> 7
    [] c = "8" -> 8 [] c = "9" -> 9

RECURSIVE ParseDigits(_, _)
\* value of the longest digit prefix of s, continuing the accumulator acc
ParseDigits(s, acc) ==
  IF s = <<>> \/ Head(s) \notin Digits THEN acc
  ELSE ParseDigits(Tail(s), acc * 10 + DigitVal(Head(s)))

\* the result of parseInt on a string without a leading number
NaN == 0 - 1000

\* JavaScript parseInt(s) in base 10: optional sign, then the digit prefix
ParseInt(s) ==
  LET neg == s # <<>> /\ Head(s) = "-"
      body == IF s # <<>> /\ Head(s) \in {"+", "-"} THEN Tail(s) ELSE s
  IN IF body = <<>> \/ Head(body) \notin Digits THEN NaN
     ELSE IF neg THEN 0 - ParseDigits(body, 0) ELSE ParseDigits(body, 0)

\* validator.js isInt: /^[-+]?(0|[1-9][0-9]*)$/
IsInt(s) ==
  LET body == IF s # <<>> /\ Head(s) \in {"+", "-"} THEN Tail(s) ELSE s
  IN /\ body # <<>>
     /\ \A i \in DOMAIN body : body[i] \in Digits
     /\ (Len(body) > 1 => body[1] # "0")

(***************************************************************************)
(* Rows                                                                    *)
(***************************************************************************)
NoNote ==
  [exists |-> FALSE, id |-> 0, userId |-> 0, title |-> "", content |-> "",
   version |-> 0, isDeleted |-> FALSE]

NoVersionRow ==
  [exists |-> FALSE, noteId |-> 0, title |-> "", content |-> "", version |-> 0,
   createdBy |-> 0, revertedFrom |-> 0]

VersionRow(n, t, c, v, u, rf) ==
  [exists |-> TRUE, noteId |-> n, title |-> t, content |-> c, version |-> v,
   createdBy |-> u, revertedFrom |-> rf]

NoTx ==
  [active |-> FALSE, note |-> NoNote, changed |-> {}, ins |-> <<>>,
   delVersions |-> 0, delNote |-> 0]

NoResp ==
  [status |-> 0, clientVersion |-> 0, serverVersion |-> 0, title |-> "",
   content |-> "", lastModifiedBy |-> 0, version |-> 0, currentVersion |-> 0,
   attemptedResolutionVersion |-> 0, isDeleted |-> FALSE, rows |-> <<>>]

IdleReq ==
  [op |-> "none", pc |-> "idle", user |-> 0, id |-> 0, title |-> "",
   content |-> "", ver |-> <<>>, strategy |-> "", query |-> "",
   note |-> NoNote, target |-> NoVersionRow, rows |-> <<>>,
   arrivalVersion |-> 0, arrivalRows |-> {}, conflictVersion |-> 0,
   arrivalDeleted |-> {}, arrivalGone |-> {}, settled |-> FALSE,
   arrivalUpdated |-> {}, arrivalSettled |-> {}, arrivalCached |-> FALSE]

VARIABLES
  notes,     \* Notes table, committed rows: [NoteIds -> note row or NoNote]
  versions,  \* NoteVersions table, committed rows in insertion order
  nextId,    \* next AUTO_INCREMENT id of the Notes table
  lock,      \* holder of the exclusive row lock of each Note row, 0 if free
  tx,        \* per request: its open transaction and buffered writes
  req,       \* per request: handler, inputs, position and local variables
  resp,      \* per request: the response sent (status 0: none yet)
  cache      \* the Redis keys of noteCache

vars == <<notes, versions, nextId, lock, tx, req, resp, cache>>


Queries == {"A", "y"}

CacheMiss == [hit |-> FALSE, rows |-> <<>>]

EmptyCache ==
  [note |-> [n \in NoteIds |-> NoNote],
   versions |-> [n \in NoteIds |-> CacheMiss],
   userNotes |-> [u \in Users |-> CacheMiss],
   shared |-> [u \in Users |-> CacheMiss],
   search |-> [u \in Users |-> [q \in Queries |-> CacheMiss]]]

Init ==
  /\ notes = [n \in NoteIds |-> NoNote]
  /\ versions = <<>>
  /\ nextId = 1
  /\ lock = [n \in NoteIds |-> 0]
  /\ tx = [p \in Procs |-> NoTx]
  /\ req = [p \in Procs |-> IdleReq]
  /\ resp = [p \in Procs |-> NoResp]
  /\ cache = EmptyCache

(***************************************************************************)
(* Store primitives (Sequelize on MySQL/InnoDB)                            *)
(***************************************************************************)
Min(S) == CHOOSE x \in S : \A y \in S : x <= y

\* faulty variant of FindNote: the isDeleted filter is ignored
FindNoteAny(n, u, activeOnly) ==
  IF /\ n \in NoteIds
     /\ notes[n].exists
     /\ notes[n].userId = u
  THEN notes[n] ELSE NoNote

\* Note.findOne({where: {id, userId[, isDeleted: false]}}) on committed rows
FindNote(n, u, activeOnly) ==
  IF /\ n \in NoteIds
     /\ notes[n].exists
     /\ notes[n].userId = u
     /\ (activeOnly => ~notes[n].isDeleted)
  THEN notes[n] ELSE NoNote

\* faulty variant of FindVersion: a missing version falls back to the first row
FindVersionOrFirst(n, v) ==
  LET idx == {i \in DOMAIN versions :
                versions[i].noteId = n /\ versions[i].version = v}
      any == {i \in DOMAIN versions : versions[i].noteId = n}
  IN IF idx # {} THEN versions[Min(idx)]
     ELSE IF any # {} THEN versions[Min(any)] ELSE NoVersionRow

\* NoteVersion.findOne({where: {noteId, version}}): first matching row
FindVersion(n, v) ==
  LET idx == {i \in DOMAIN versions :
                versions[i].noteId = n /\ versions[i].version = v}
  IN IF idx = {} THEN NoVersionRow ELSE versions[Min(idx)]

\* faulty variant of CanLock: the read takes no row lock and never waits
CanLockNoWait(p, n) == TRUE

\* a locking statement on Note row n by p waits while another holds the lock
CanLock(p, n) == notes[n].exists => lock[n] \in {0, p}

ReleaseLocks(p) == [n \in NoteIds |-> IF lock[n] = p THEN 0 ELSE lock[n]]

\* faulty variant of MergeRow: the isDeleted column is left out of the UPDATE
MergeRowNoFlag(old, row, changed) ==
  [old EXCEPT !.title = IF "title" \in changed THEN row.title ELSE @,
              !.content = IF "content" \in changed THEN row.content ELSE @,
              !.version = IF "version" \in changed THEN row.version ELSE @]

\* UPDATE Notes SET <changed fields> WHERE id = row.id, applied to row old
MergeRow(old, row, changed) ==
  [old EXCEPT !.title = IF "title" \in changed THEN row.title ELSE @,
              !.content = IF "content" \in changed THEN row.content ELSE @,
              !.version = IF "version" \in changed THEN row.version ELSE @,
              !.isDeleted = IF "isDeleted" \in changed THEN row.isDeleted ELSE @]

\* faulty variant of CommittedNotes: the DELETE of the Note row is lost
CommittedNotesKeep(t) ==
  [n \in NoteIds |->
     IF t.note.exists /\ t.note.id = n /\ notes[n].exists
     THEN MergeRow(notes[n], t.note, t.changed)
     ELSE notes[n]]

\* the Notes table after transaction t commits
CommittedNotes(t) ==
  [n \in NoteIds |->
     IF t.delNote = n THEN NoNote
     ELSE IF t.note.exists /\ t.note.id = n /\ notes[n].exists
          THEN MergeRow(notes[n], t.note, t.changed)
          ELSE notes[n]]

\* faulty variant of CommittedVersions: a new row replaces the rows of its
\* note that have the same title
CommittedVersionsReplace(t) ==
  LET kept == SelectSeq(versions,
                LAMBDA r : /\ r.noteId # t.delVersions /\ r.noteId # t.delNote
                           /\ \A i \in DOMAIN t.ins :
                                ~(t.ins[i].noteId = r.noteId
                                  /\ t.ins[i].title = r.title))
      added == SelectSeq(t.ins, LAMBDA r : r.noteId # t.delNote)
  IN kept \o added

\* the NoteVersions table after transaction t commits; deleting the Note
\* row cascades to its NoteVersion rows (onDelete: 'CASCADE')
CommittedVersions(t) ==
  LET kept == SelectSeq(versions,
                LAMBDA r : r.noteId # t.delVersions /\ r.noteId # t.delNote)
      added == SelectSeq(t.ins, LAMBDA r : r.noteId # t.delNote)
  IN kept \o added

\* transaction.commit(): the buffered writes become visible as one unit
Commit(p) ==
  /\ notes' = CommittedNotes(tx[p])
  /\ versions' = CommittedVersions(tx[p])
  /\ tx' = [tx EXCEPT ![p] = NoTx]
  /\ lock' = ReleaseLocks(p)

\* transaction.rollback(): buffered writes are dropped, locks released
Rollback(p) ==
  /\ tx' = [tx EXCEPT ![p] = NoTx]
  /\ lock' = ReleaseLocks(p)
  /\ UNCHANGED <<notes, versions>>

\* res.status(..).json(..): the handler ends and its locals are dropped; the
\* request's inputs and the response stay on record until the next request
Respond(p, r) ==
  /\ req' = [req EXCEPT ![p].pc = "done", ![p].note = NoNote,
                        ![p].target = NoVersionRow, ![p].rows = <<>>]
  /\ resp' = [resp EXCEPT ![p] = r]

\* faulty variant of Throw: the catch block rethrows without rolling back
ThrowOpen(p) ==
  /\ Respond(p, [NoResp EXCEPT !.status = 500])
  /\ UNCHANGED <<notes, versions, nextId, lock, tx, cache>>

\* a statement throws inside the handler's try block: the catch block rolls
\* back the unfinished transaction and rethrows; errorHandler answers 500
Throw(p) ==
  /\ Rollback(p)
  /\ Respond(p, [NoResp EXCEPT !.status = 500])
  /\ UNCHANGED <<nextId, cache>>

Begin(p, r) ==
  /\ req[p].pc \in {"idle", "done"}
  /\ req' = [req EXCEPT ![p] = r]
  /\ resp' = [resp EXCEPT ![p] = NoResp]

\* validate(): a request that fails validation is answered 400 and never
\* reaches the controller
Reject(p, op) ==
  /\ req[p].pc \in {"idle", "done"}
  /\ req' = [req EXCEPT ![p] = [IdleReq EXCEPT !.op = op, !.pc = "done"]]
  /\ resp' = [resp EXCEPT ![p] = [NoResp EXCEPT !.status = 400]]
  /\ UNCHANGED <<notes, versions, nextId, lock, tx, cache>>

\* the version of note n when a request arrives, 0 if it is absent or
\* soft-deleted (kept on record for the properties; no handler reads it)
ArrivalVersion(n) ==
  IF notes[n].exists /\ ~notes[n].isDeleted THEN notes[n].version ELSE 0

\* the version numbers of the NoteVersion rows of note n when a request
\* arrives (kept on record for the properties; no handler reads it)
ArrivalRows(n) ==
  {versions[i].version : i \in {j \in DOMAIN versions : versions[j].noteId = n}}

\* the notes that are soft-deleted when a read arrives, the softDelete having
\* been answered (kept on record for the properties; no handler reads it)
ArrivalDeleted ==
  {n \in NoteIds :
     /\ notes[n].exists /\ notes[n].isDeleted
     /\ \A q \in Procs : ~(req[q].op = "softDelete" /\ req[q].id = n
                            /\ req[q].pc \notin {"idle", "done"})}

\* the notes that are permanently deleted when a read arrives, the delete
\* having been answered (kept on record for the properties)
ArrivalGone ==
  {n \in NoteIds :
     /\ n < nextId /\ ~notes[n].exists
     /\ \A q \in Procs : ~(req[q].op = "delete" /\ req[q].id = n
                            /\ req[q].pc \notin {"idle", "done"})}

\* the serverVersion of the 409 that client p has just received for an
\* update of note n, 0 if its last exchange was anything else (kept on
\* record for the properties; no handler reads it)
ConflictVersion(p, n) ==
  IF req[p].op = "update" /\ req[p].id = n /\ resp[p].status = 409
  THEN resp[p].serverVersion ELSE 0

\* whether note n, its version list and the collection of user u are all
\* cached when a request arrives (kept on record for the properties; no
\* handler reads it)
ArrivalCached(n, u) ==
  cache.note[n].exists /\ cache.versions[n].hit /\ cache.userNotes[u].hit

\* the read handlers
Reads == {"getNote", "getVersions", "getAll", "search"}

\* whether the invalidation that ends p's mutation of note n, of which k
\* DELs complete, leaves no entry of the note behind: every key that was
\* cached is reached by a completed DEL, and no read is in flight that could
\* write an earlier snapshot back (kept on record for the properties; no
\* handler reads it)
Settled(p, n, u, k) ==
  /\ k < 1 => ~cache.note[n].exists
  /\ k < 2 => ~cache.versions[n].hit
  /\ k < 3 => ~cache.userNotes[u].hit
  /\ \A q \in Procs \ {p} :
       req[q].op \in Reads => req[q].pc \in {"idle", "done"}

\* the notes whose last answered mutation is a successful update, each with
\* the version the update left, when a read arrives (kept on record for the
\* properties; no handler reads it)
ArrivalUpdated ==
  {<<n, notes[n].version>> : n \in
     {m \in NoteIds :
        /\ notes[m].exists /\ ~notes[m].isDeleted
        /\ \E w \in Procs :
             /\ req[w].op = "update" /\ req[w].pc = "done" /\ req[w].id = m
             /\ resp[w].status = 200 /\ resp[w].version = notes[m].version}}

\* those of them whose update's invalidation left no entry behind
ArrivalSettled ==
  {e \in ArrivalUpdated :
     \E w \in Procs : /\ req[w].op = "update" /\ req[w].pc = "done"
                      /\ req[w].id = e[1] /\ resp[w].version = e[2]
                      /\ req[w].settled}

(***************************************************************************)
(* noteCache invalidation                                                  *)
(***************************************************************************)

\* faulty variant of InvalidateAllNoteCache: the version-list key is never deleted
InvalidateAllNoteCacheNoVersions(c, n, u, k) ==
  [c EXCEPT !.note[n] = IF k >= 1 THEN NoNote ELSE @,
            !.userNotes[u] = IF k >= 3 THEN CacheMiss ELSE @]

\* invalidateAllNoteCache(noteId, userId): three sequential DELs in one try
\* block; k is the number of DELs that complete before one throws (3: all)
InvalidateAllNoteCache(c, n, u, k) ==
  [c EXCEPT !.note[n] = IF k >= 1 THEN NoNote ELSE @,
            !.versions[n] = IF k >= 2 THEN CacheMiss ELSE @,
            !.userNotes[u] = IF k >= 3 THEN CacheMiss ELSE @]

\* invalidateSearchResults(userId): KEYS user:<id>:search:* then one DEL
InvalidateSearchResults(c, u, ok) ==
  IF ok THEN [c EXCEPT !.search[u] = [q \in Queries |-> CacheMiss]] ELSE c

\* invalidateUserNotes(userId): DEL of the collection key and of the shared
\* collection key, issued together (Promise.all); each may fail on its own
InvalidateUserNotes(c, u, ok1, ok2) ==
  [c EXCEPT !.userNotes[u] = IF ok1 THEN CacheMiss ELSE @,
            !.shared[u] = IF ok2 THEN CacheMiss ELSE @]


(***************************************************************************)
(* Statements shared by the handlers                                       *)
(***************************************************************************)
At(p, op, pc) == req[p].op = op /\ req[p].pc = pc

\* faulty variant of VersionConflict: only a smaller client version is a conflict
VersionConflictStaleOnly(v, note) == ParseInt(v) < note.version

\* if (parseInt(clientVersion) !== note.version)
VersionConflict(v, note) == ParseInt(v) # note.version

\* faulty variant of NewVersion: the version skips a number
NewVersionSkip(note) == note.version + 2

\* const newVersion = note.version + 1
NewVersion(note) == note.version + 1

\* faulty variant of RejectConflict: the rejected request invalidates the caches
RejectConflictInvalidating(p, payload) ==
  /\ Rollback(p)
  /\ Respond(p, payload)
  /\ cache' = InvalidateAllNoteCache(cache, req[p].id, req[p].user, 3)
  /\ UNCHANGED nextId

\* await transaction.rollback(); return res.status(409).json(payload): the
\* request ends here, nothing is written and no cache key is touched
RejectConflict(p, payload) ==
  /\ Rollback(p)
  /\ Respond(p, payload)
  /\ UNCHANGED <<nextId, cache>>

\* faulty variant of ConflictPayload: serverVersion echoes the client's version
ConflictPayloadEcho(clientVersion, note, currentVersion) ==
  [NoResp EXCEPT !.status = 409,
                 !.clientVersion = clientVersion,
                 !.serverVersion = clientVersion,
                 !.title = note.title,
                 !.content = note.content,
                 !.lastModifiedBy = IF currentVersion.exists
                                    THEN currentVersion.createdBy ELSE 0]

\* the 409 body of updateNote
ConflictPayload(clientVersion, note, currentVersion) ==
  [NoResp EXCEPT !.status = 409,
                 !.clientVersion = clientVersion,
                 !.serverVersion = note.version,
                 !.title = note.title,
                 !.content = note.content,
                 !.lastModifiedBy = IF currentVersion.exists
                                    THEN currentVersion.createdBy ELSE 0]

\* faulty variant of FindForUpdate: a failed lock wait is answered 409
FindForUpdateTimeoutConflict(p, ok) ==
  LET n == req[p].id
      note == FindNote(n, req[p].user, TRUE)
  IN IF ~ok THEN RejectConflict(p, [NoResp EXCEPT !.status = 409])
     ELSE /\ CanLock(p, n)
          /\ IF note.exists
             THEN /\ lock' = [lock EXCEPT ![n] = p]
                  /\ req' = [req EXCEPT ![p].note = note, ![p].pc = "locked"]
                  /\ UNCHANGED <<notes, versions, nextId, tx, resp, cache>>
             ELSE /\ Rollback(p)
                  /\ Respond(p, [NoResp EXCEPT !.status = 404])
                  /\ UNCHANGED <<nextId, cache>>

\* Note.findOne({where: {id, userId, isDeleted: false},
\*               lock: transaction.LOCK.UPDATE, transaction});
\* if (!note) { await transaction.rollback(); return res.status(404)... }
FindForUpdate(p, ok) ==
  LET n == req[p].id
      note == FindNote(n, req[p].user, TRUE)
  IN IF ~ok THEN Throw(p)
     ELSE /\ CanLock(p, n)
          /\ IF note.exists
             THEN /\ lock' = [lock EXCEPT ![n] = p]
                  /\ req' = [req EXCEPT ![p].note = note, ![p].pc = "locked"]
                  /\ UNCHANGED <<notes, versions, nextId, tx, resp, cache>>
             ELSE /\ Rollback(p)
                  /\ Respond(p, [NoResp EXCEPT !.status = 404])
                  /\ UNCHANGED <<nextId, cache>>

\* await note.update(values, { transaction }): the instance takes the new
\* values and the UPDATE of the changed columns is buffered in the transaction
NoteUpdate(p, ok, row, changed, nextPc) ==
  IF ~ok THEN Throw(p)
  ELSE /\ tx' = [tx EXCEPT ![p].note = row, ![p].changed = changed]
       /\ req' = [req EXCEPT ![p].note = row, ![p].pc = nextPc]
       /\ UNCHANGED <<notes, versions, nextId, lock, resp, cache>>

\* faulty variant of VersionCreate: the insert runs outside the transaction
VersionCreateAutocommit(p, ok, row, nextPc) ==
  IF ~ok THEN Throw(p)
  ELSE /\ versions' = Append(versions, row)
       /\ req' = [req EXCEPT ![p].pc = nextPc]
       /\ UNCHANGED <<notes, nextId, lock, tx, resp, cache>>

\* await db.NoteVersion.create(row, { transaction })
VersionCreate(p, ok, row, nextPc) ==
  IF ~ok THEN Throw(p)
  ELSE /\ tx' = [tx EXCEPT ![p].ins = Append(@, row)]
       /\ req' = [req EXCEPT ![p].pc = nextPc]
       /\ UNCHANGED <<notes, versions, nextId, lock, resp, cache>>

\* await transaction.commit(); a failed commit leaves transaction.finished
\* set, so the catch block does not roll back: the store aborts the work
TxCommit(p, ok, nextPc) ==
  IF ~ok THEN Throw(p)
  ELSE /\ Commit(p)
       /\ req' = [req EXCEPT ![p].pc = nextPc]
       /\ UNCHANGED <<nextId, resp, cache>>

(***************************************************************************)
(* createNote                                                              *)
(***************************************************************************)
StartCreate(p, u, t, c, maxNotes) ==
  /\ nextId <= maxNotes
  /\ Begin(p, [IdleReq EXCEPT !.op = "create", !.pc = "noteCreate",
                              !.user = u, !.title = t, !.content = c])
  /\ UNCHANGED <<notes, versions, nextId, lock, tx, cache>>

\* const note = await db.Note.create({...version: 1, isDeleted: false})
CreateNote_NoteCreate(p, ok) ==
  /\ At(p, "create", "noteCreate")
  /\ IF ~ok THEN Throw(p)
     ELSE LET row == [exists |-> TRUE, id |-> nextId, userId |-> req[p].user,
                      title |-> req[p].title, content |-> req[p].content,
                      version |-> 1, isDeleted |-> FALSE]
          IN /\ nextId <= MaxNotes
             /\ notes' = [notes EXCEPT ![nextId] = row]
             /\ nextId' = nextId + 1
             /\ req' = [req EXCEPT ![p].note = row, ![p].id = nextId,
                                   ![p].pc = "versionCreate"]
             /\ UNCHANGED <<versions, lock, tx, resp, cache>>

\* await db.NoteVersion.create({noteId: note.id, ..., version: 1}): the
\* foreign key on noteId makes the insert wait for the parent row's lock and
\* fail when the Note row is gone
CreateNote_VersionCreate(p, ok) ==
  /\ At(p, "create", "versionCreate")
  /\ IF ~ok \/ ~notes[req[p].id].exists THEN Throw(p)
     ELSE /\ CanLock(p, req[p].id)
          /\ versions' = Append(versions,
                           VersionRow(req[p].id, req[p].title, req[p].content,
                                      1, req[p].user, 0))
          /\ req' = [req EXCEPT ![p].pc = "invalidate"]
          /\ UNCHANGED <<notes, nextId, lock, tx, resp, cache>>

\* await noteCache.invalidateUserNotes(userId); return res.status(201)
CreateNote_Invalidate(p, ok1, ok2) ==
  /\ At(p, "create", "invalidate")
  /\ cache' = InvalidateUserNotes(cache, req[p].user, ok1, ok2)
  /\ Respond(p, [NoResp EXCEPT !.status = 201, !.version = req[p].note.version,
                               !.title = req[p].note.title,
                               !.content = req[p].note.content])
  /\ UNCHANGED <<notes, versions, nextId, lock, tx>>

(***************************************************************************)
(* updateNote                                                              *)
(***************************************************************************)
StartUpdate(p, u, n, t, c, v) ==
  /\ ArrivalVersion(n) < MaxVersion
  /\ IF ~IsInt(v) THEN Reject(p, "update")
     ELSE /\ Begin(p, [IdleReq EXCEPT !.op = "update", !.pc = "find",
                          !.user = u, !.id = n, !.title = t, !.content = c,
                          !.ver = v, !.arrivalVersion = ArrivalVersion(n),
                          !.arrivalCached = ArrivalCached(n, u)])
          /\ tx' = [tx EXCEPT ![p] = [NoTx EXCEPT !.active = TRUE]]
          /\ UNCHANGED <<notes, versions, nextId, lock, cache>>

\* faulty variant of UpdateNote_Find: the note is read without the row lock
UpdateNote_FindNoLock(p, ok) ==
  /\ At(p, "update", "find")
  /\ LET note == FindNote(req[p].id, req[p].user, TRUE)
     IN IF ~ok THEN Throw(p)
        ELSE IF note.exists
        THEN /\ req' = [req EXCEPT ![p].note = note, ![p].pc = "locked"]
             /\ UNCHANGED <<notes, versions, nextId, lock, tx, resp, cache>>
        ELSE /\ Rollback(p)
             /\ Respond(p, [NoResp EXCEPT !.status = 404])
             /\ UNCHANGED <<nextId, cache>>

UpdateNote_Find(p, ok) ==
  /\ At(p, "update", "find")
  /\ FindForUpdate(p, ok)

\* faulty variant of UpdateNote_Check: the version check trusts the cached
\* note when there is one
UpdateNote_CheckCached(p, ok) ==
  /\ At(p, "update", "locked")
  /\ LET note == req[p].note
         cachedNote == cache.note[req[p].id]
         clientVersion == ParseInt(req[p].ver)
         currentVersion == FindVersion(req[p].id, note.version)
         newVersion == NewVersion(note)
     IN IF VersionConflict(req[p].ver,
                           IF cachedNote.exists THEN cachedNote ELSE note)
        THEN IF ~ok THEN Throw(p)
             ELSE RejectConflict(p, ConflictPayload(clientVersion, note,
                                                    currentVersion))
        ELSE NoteUpdate(p, ok, [note EXCEPT !.title = req[p].title,
                                            !.content = req[p].content,
                                            !.version = newVersion],
                        {"title", "content", "version"}, "insert")

\* if (parseInt(clientVersion) !== note.version) { ...409... }
\* else await note.update({title, content, version: newVersion})
UpdateNote_Check(p, ok) ==
  /\ At(p, "update", "locked")
  /\ LET note == req[p].note
         clientVersion == ParseInt(req[p].ver)
         currentVersion == FindVersion(req[p].id, note.version)
         newVersion == NewVersion(note)
     IN IF VersionConflict(req[p].ver, note)
        THEN IF ~ok THEN Throw(p)
             ELSE RejectConflict(p, ConflictPayload(clientVersion, note,
                                                    currentVersion))
        ELSE NoteUpdate(p, ok, [note EXCEPT !.title = req[p].title,
                                            !.content = req[p].content,
                                            !.version = newVersion],
                        {"title", "content", "version"}, "insert")

\* faulty variant of UpdateNote_Insert: the caches are invalidated before the
\* transaction commits
UpdateNote_InsertInvalidating(p, ok) ==
  /\ At(p, "update", "insert")
  /\ IF ~ok THEN Throw(p)
     ELSE /\ tx' = [tx EXCEPT ![p].ins =
                      Append(@, VersionRow(req[p].id, req[p].title,
                                           req[p].content, req[p].note.version,
                                           req[p].user, 0))]
          /\ req' = [req EXCEPT ![p].pc = "commit"]
          /\ cache' = InvalidateAllNoteCache(cache, req[p].id, req[p].user, 3)
          /\ UNCHANGED <<notes, versions, nextId, lock, resp>>

\* await db.NoteVersion.create({noteId, title, content, version: newVersion,
\*                              createdBy: userId}, { transaction })
UpdateNote_Insert(p, ok) ==
  /\ At(p, "update", "insert")
  /\ VersionCreate(p, ok,
       VersionRow(req[p].id, req[p].title, req[p].content,
                  req[p].note.version, req[p].user, 0), "commit")

UpdateNote_Commit(p, ok) ==
  /\ At(p, "update", "commit")
  /\ TxCommit(p, ok, "invalidate")

\* faulty variant of UpdateNote_Invalidate: the response is sent without the
\* invalidation
UpdateNote_InvalidateNone(p, k) ==
  /\ At(p, "update", "invalidate")
  /\ req' = [req EXCEPT ![p].pc = "done", ![p].note = NoNote,
                        ![p].settled = Settled(p, req[p].id, req[p].user, k)]
  /\ resp' = [resp EXCEPT ![p] = [NoResp EXCEPT
                                    !.status = 200,
                                    !.version = req[p].note.version,
                                    !.title = req[p].note.title,
                                    !.content = req[p].note.content]]
  /\ UNCHANGED <<notes, versions, nextId, lock, tx, cache>>

\* await noteCache.invalidateAllNoteCache(noteId, userId); return res.json(note)
UpdateNote_Invalidate(p, k) ==
  /\ At(p, "update", "invalidate")
  /\ cache' = InvalidateAllNoteCache(cache, req[p].id, req[p].user, k)
  /\ req' = [req EXCEPT ![p].pc = "done", ![p].note = NoNote,
                        ![p].settled = Settled(p, req[p].id, req[p].user, k)]
  /\ resp' = [resp EXCEPT ![p] = [NoResp EXCEPT
                                    !.status = 200,
                                    !.version = req[p].note.version,
                                    !.title = req[p].note.title,
                                    !.content = req[p].note.content]]
  /\ UNCHANGED <<notes, versions, nextId, lock, tx>>


(***************************************************************************)
(* softDeleteNote                                                          *)
(***************************************************************************)
StartSoftDelete(p, u, n, v) ==
  /\ ArrivalVersion(n) < MaxVersion
  /\ IF ~IsInt(v) THEN Reject(p, "softDelete")
     ELSE /\ Begin(p, [IdleReq EXCEPT !.op = "softDelete", !.pc = "find",
                          !.user = u, !.id = n, !.ver = v,
                          !.arrivalVersion = ArrivalVersion(n)])
          /\ tx' = [tx EXCEPT ![p] = [NoTx EXCEPT !.active = TRUE]]
          /\ UNCHANGED <<notes, versions, nextId, lock, cache>>

SoftDeleteNote_Find(p, ok) ==
  /\ At(p, "softDelete", "find")
  /\ FindForUpdate(p, ok)

\* faulty variant of SoftDeleteNote_Check: the soft delete also blanks the
\* title
SoftDeleteNote_CheckBlanking(p, ok) ==
  /\ At(p, "softDelete", "locked")
  /\ LET note == req[p].note
         clientVersion == ParseInt(req[p].ver)
         newVersion == NewVersion(note)
     IN IF VersionConflict(req[p].ver, note)
        THEN /\ ok
             /\ RejectConflict(p, [NoResp EXCEPT
                                     !.status = 409,
                                     !.clientVersion = clientVersion,
                                     !.serverVersion = note.version])
        ELSE NoteUpdate(p, ok, [note EXCEPT !.isDeleted = TRUE,
                                            !.version = newVersion,
                                            !.title = ""],
                        {"isDeleted", "version", "title"}, "insert")

\* if (parseInt(clientVersion) !== note.version) { rollback; 409 }
\* else await note.update({isDeleted: true, version: newVersion})
SoftDeleteNote_Check(p, ok) ==
  /\ At(p, "softDelete", "locked")
  /\ LET note == req[p].note
         clientVersion == ParseInt(req[p].ver)
         newVersion == NewVersion(note)
     IN IF VersionConflict(req[p].ver, note)
        THEN /\ ok
             /\ RejectConflict(p, [NoResp EXCEPT
                                     !.status = 409,
                                     !.clientVersion = clientVersion,
                                     !.serverVersion = note.version])
        ELSE NoteUpdate(p, ok, [note EXCEPT !.isDeleted = TRUE,
                                            !.version = newVersion],
                        {"isDeleted", "version"}, "insert")

\* await db.NoteVersion.create({noteId, title: note.title,
\*   content: note.content, version: newVersion, createdBy: userId})
SoftDeleteNote_Insert(p, ok) ==
  /\ At(p, "softDelete", "insert")
  /\ VersionCreate(p, ok,
       VersionRow(req[p].id, req[p].note.title, req[p].note.content,
                  req[p].note.version, req[p].user, 0), "commit")

SoftDeleteNote_Commit(p, ok) ==
  /\ At(p, "softDelete", "commit")
  /\ TxCommit(p, ok, "invalidate")

\* await noteCache.invalidateAllNoteCache(noteId, userId)
SoftDeleteNote_Invalidate(p, k) ==
  /\ At(p, "softDelete", "invalidate")
  /\ cache' = InvalidateAllNoteCache(cache, req[p].id, req[p].user, k)
  /\ req' = [req EXCEPT ![p].pc = "invalidateSearch"]
  /\ UNCHANGED <<notes, versions, nextId, lock, tx, resp>>

\* await noteCache.invalidateSearchResults(userId); return res.json({message})
SoftDeleteNote_InvalidateSearch(p, ok) ==
  /\ At(p, "softDelete", "invalidateSearch")
  /\ cache' = InvalidateSearchResults(cache, req[p].user, ok)
  /\ Respond(p, [NoResp EXCEPT !.status = 200])
  /\ UNCHANGED <<notes, versions, nextId, lock, tx>>

(***************************************************************************)
(* revertToVersion                                                         *)
(***************************************************************************)
StartRevert(p, u, n, v) ==
  /\ ArrivalVersion(n) < MaxVersion
  /\ IF ~IsInt(v) THEN Reject(p, "revert")
     ELSE /\ Begin(p, [IdleReq EXCEPT !.op = "revert", !.pc = "find",
                          !.user = u, !.id = n, !.ver = v,
                          !.arrivalVersion = ArrivalVersion(n),
                          !.arrivalRows = ArrivalRows(n)])
          /\ tx' = [tx EXCEPT ![p] = [NoTx EXCEPT !.active = TRUE]]
          /\ UNCHANGED <<notes, versions, nextId, lock, cache>>

\* faulty variant of RevertToVersion_Find: the note is read without the row
\* lock
RevertToVersion_FindNoLock(p, ok) ==
  /\ At(p, "revert", "find")
  /\ LET note == FindNote(req[p].id, req[p].user, TRUE)
     IN IF ~ok THEN Throw(p)
        ELSE IF note.exists
        THEN /\ req' = [req EXCEPT ![p].note = note, ![p].pc = "locked"]
             /\ UNCHANGED <<notes, versions, nextId, lock, tx, resp, cache>>
        ELSE /\ Rollback(p)
             /\ Respond(p, [NoResp EXCEPT !.status = 404])
             /\ UNCHANGED <<nextId, cache>>

RevertToVersion_Find(p, ok) ==
  /\ At(p, "revert", "find")
  /\ FindForUpdate(p, ok)

\* faulty variant of RevertToVersion_FindVersion: a revert that finds the note
\* at another version than the one it had on arrival is answered 409
RevertToVersion_FindVersionChecked(p, ok) ==
  /\ At(p, "revert", "locked")
  /\ LET versionToRevert == FindVersion(req[p].id, ParseInt(req[p].ver))
     IN IF ~ok THEN Throw(p)
        ELSE IF req[p].note.version # req[p].arrivalVersion
        THEN RejectConflict(p, [NoResp EXCEPT !.status = 409])
        ELSE IF ~versionToRevert.exists
        THEN /\ Rollback(p)
             /\ Respond(p, [NoResp EXCEPT !.status = 404])
             /\ UNCHANGED <<nextId, cache>>
        ELSE /\ req' = [req EXCEPT ![p].target = versionToRevert,
                                   ![p].pc = "update"]
             /\ UNCHANGED <<notes, versions, nextId, lock, tx, resp, cache>>

\* const versionToRevert = await db.NoteVersion.findOne({where: {noteId,
\*   version: versionNumber}, transaction}); the store compares the string
\* parameter with the integer column by its numeric value
RevertToVersion_FindVersion(p, ok) ==
  /\ At(p, "revert", "locked")
  /\ LET versionToRevert == FindVersion(req[p].id, ParseInt(req[p].ver))
     IN IF ~ok THEN Throw(p)
        ELSE IF ~versionToRevert.exists
        THEN /\ Rollback(p)
             /\ Respond(p, [NoResp EXCEPT !.status = 404])
             /\ UNCHANGED <<nextId, cache>>
        ELSE /\ req' = [req EXCEPT ![p].target = versionToRevert,
                                   ![p].pc = "update"]
             /\ UNCHANGED <<notes, versions, nextId, lock, tx, resp, cache>>

\* await note.update({title: versionToRevert.title,
\*   content: versionToRevert.content, version: note.version + 1})
RevertToVersion_Update(p, ok) ==
  /\ At(p, "revert", "update")
  /\ NoteUpdate(p, ok, [req[p].note EXCEPT !.title = req[p].target.title,
                                           !.content = req[p].target.content,
                                           !.version = NewVersion(req[p].note)],
                {"title", "content", "version"}, "insert")

\* faulty variant of RevertToVersion_Insert: the row does not record the
\* version it was reverted from
RevertToVersion_InsertNoProvenance(p, ok) ==
  /\ At(p, "revert", "insert")
  /\ VersionCreate(p, ok,
       VersionRow(req[p].id, req[p].target.title, req[p].target.content,
                  req[p].note.version, req[p].user, 0),
       "commit")

\* await db.NoteVersion.create({..., version: newVersion, createdBy: userId,
\*                              revertedFrom: versionNumber})
RevertToVersion_Insert(p, ok) ==
  /\ At(p, "revert", "insert")
  /\ VersionCreate(p, ok,
       VersionRow(req[p].id, req[p].target.title, req[p].target.content,
                  req[p].note.version, req[p].user, ParseInt(req[p].ver)),
       "commit")

RevertToVersion_Commit(p, ok) ==
  /\ At(p, "revert", "commit")
  /\ TxCommit(p, ok, "invalidate")

RevertToVersion_Invalidate(p, k) ==
  /\ At(p, "revert", "invalidate")
  /\ cache' = InvalidateAllNoteCache(cache, req[p].id, req[p].user, k)
  /\ Respond(p, [NoResp EXCEPT !.status = 200, !.version = req[p].note.version,
                               !.title = req[p].note.title,
                               !.content = req[p].note.content])
  /\ UNCHANGED <<notes, versions, nextId, lock, tx>>

(***************************************************************************)
(* resolveConflict                                                         *)
(***************************************************************************)
StartResolve(p, u, n, t, c, v, s) ==
  /\ ArrivalVersion(n) < MaxVersion
  /\ IF ~IsInt(v) THEN Reject(p, "resolve")
     ELSE /\ Begin(p, [IdleReq EXCEPT !.op = "resolve", !.pc = "find",
                          !.user = u, !.id = n, !.title = t, !.content = c,
                          !.ver = v, !.strategy = s,
                          !.arrivalVersion = ArrivalVersion(n)])
          /\ tx' = [tx EXCEPT ![p] = [NoTx EXCEPT !.active = TRUE]]
          /\ UNCHANGED <<notes, versions, nextId, lock, cache>>

\* faulty variant of ResolveConflict_Find: the lookup has no isDeleted filter
ResolveConflict_FindAny(p, ok) ==
  /\ At(p, "resolve", "find")
  /\ LET n == req[p].id
         note == FindNote(n, req[p].user, FALSE)
     IN IF ~ok THEN Throw(p)
        ELSE /\ CanLock(p, n)
             /\ IF note.exists
                THEN /\ lock' = [lock EXCEPT ![n] = p]
                     /\ req' = [req EXCEPT ![p].note = note, ![p].pc = "locked"]
                     /\ UNCHANGED <<notes, versions, nextId, tx, resp, cache>>
                ELSE /\ Rollback(p)
                     /\ Respond(p, [NoResp EXCEPT !.status = 404])
                     /\ UNCHANGED <<nextId, cache>>

ResolveConflict_Find(p, ok) ==
  /\ At(p, "resolve", "find")
  /\ FindForUpdate(p, ok)

\* the client of an update answered 409 follows the protocol: its next
\* request is a resolveConflict of the same note whose serverVersion is the
\* one the 409 reported
StartResolveAfterConflict(p, t, c, v, s) ==
  /\ req[p].op = "update" /\ resp[p].status = 409
  /\ ParseInt(v) = resp[p].serverVersion
  /\ ArrivalVersion(req[p].id) < MaxVersion
  /\ IsInt(v)
  /\ Begin(p, [IdleReq EXCEPT !.op = "resolve", !.pc = "find",
                  !.user = req[p].user, !.id = req[p].id, !.title = t,
                  !.content = c, !.ver = v, !.strategy = s,
                  !.arrivalVersion = ArrivalVersion(req[p].id),
                  !.conflictVersion = ConflictVersion(p, req[p].id)])
  /\ tx' = [tx EXCEPT ![p] = [NoTx EXCEPT !.active = TRUE]]
  /\ UNCHANGED <<notes, versions, nextId, lock, cache>>

\* faulty variant of ResolveConflict_Check: a resolution against an older
\* server version is accepted
ResolveConflict_CheckStaleAccepted(p, ok) ==
  /\ At(p, "resolve", "locked")
  /\ LET note == req[p].note
         serverVersion == ParseInt(req[p].ver)
         latestVersion == serverVersion + 1
     IN IF serverVersion > note.version
        THEN /\ ok
             /\ RejectConflict(p, [NoResp EXCEPT
                                     !.status = 409,
                                     !.currentVersion = note.version,
                                     !.attemptedResolutionVersion = serverVersion])
        ELSE NoteUpdate(p, ok, [note EXCEPT !.title = req[p].title,
                                            !.content = req[p].content,
                                            !.version = latestVersion],
                        {"title", "content", "version"}, "insert")

\* if (parseInt(serverVersion) !== note.version) { rollback; 409 }
\* else await note.update({title, content, version: parseInt(serverVersion)+1})
ResolveConflict_Check(p, ok) ==
  /\ At(p, "resolve", "locked")
  /\ LET note == req[p].note
         serverVersion == ParseInt(req[p].ver)
         latestVersion == serverVersion + 1
     IN IF VersionConflict(req[p].ver, note)
        THEN /\ ok
             /\ RejectConflict(p, [NoResp EXCEPT
                                     !.status = 409,
                                     !.currentVersion = note.version,
                                     !.attemptedResolutionVersion = serverVersion])
        ELSE NoteUpdate(p, ok, [note EXCEPT !.title = req[p].title,
                                            !.content = req[p].content,
                                            !.version = latestVersion],
                        {"title", "content", "version"}, "insert")

\* faulty variant of ResolveConflict_Insert: under 'server-wins' the row
\* keeps the server's title and content
ResolveConflict_InsertServerWins(p, ok) ==
  /\ At(p, "resolve", "insert")
  /\ VersionCreate(p, ok,
       VersionRow(req[p].id,
                  IF req[p].strategy = "server-wins"
                  THEN notes[req[p].id].title ELSE req[p].title,
                  IF req[p].strategy = "server-wins"
                  THEN notes[req[p].id].content ELSE req[p].content,
                  ParseInt(req[p].ver) + 1, req[p].user, 0), "commit")

\* await db.NoteVersion.create({noteId, title, content,
\*   version: latestVersion, createdBy: userId}, { transaction })
ResolveConflict_Insert(p, ok) ==
  /\ At(p, "resolve", "insert")
  /\ VersionCreate(p, ok,
       VersionRow(req[p].id, req[p].title, req[p].content,
                  ParseInt(req[p].ver) + 1, req[p].user, 0), "commit")

ResolveConflict_Commit(p, ok) ==
  /\ At(p, "resolve", "commit")
  /\ TxCommit(p, ok, "invalidate")

ResolveConflict_Invalidate(p, k) ==
  /\ At(p, "resolve", "invalidate")
  /\ cache' = InvalidateAllNoteCache(cache, req[p].id, req[p].user, k)
  /\ req' = [req EXCEPT ![p].pc = "invalidateSearch"]
  /\ UNCHANGED <<notes, versions, nextId, lock, tx, resp>>

ResolveConflict_InvalidateSearch(p, ok) ==
  /\ At(p, "resolve", "invalidateSearch")
  /\ cache' = InvalidateSearchResults(cache, req[p].user, ok)
  /\ Respond(p, [NoResp EXCEPT !.status = 200,
                               !.version = ParseInt(req[p].ver) + 1,
                               !.title = req[p].note.title,
                               !.content = req[p].note.content])
  /\ UNCHANGED <<notes, versions, nextId, lock, tx>>

(***************************************************************************)
(* deleteNote (permanent)                                                  *)
(***************************************************************************)
StartDelete(p, u, n) ==
  /\ Begin(p, [IdleReq EXCEPT !.op = "delete", !.pc = "find", !.user = u,
                              !.id = n, !.arrivalVersion = ArrivalVersion(n)])
  /\ tx' = [tx EXCEPT ![p] = [NoTx EXCEPT !.active = TRUE]]
  /\ UNCHANGED <<notes, versions, nextId, lock, cache>>

\* const note = await db.Note.findOne({where: {id, userId}, transaction}):
\* a plain read, it takes no lock and sees soft-deleted notes too
DeleteNote_Find(p, ok) ==
  /\ At(p, "delete", "find")
  /\ LET note == FindNote(req[p].id, req[p].user, FALSE)
     IN IF ~ok THEN Throw(p)
        ELSE IF ~note.exists
        THEN /\ Rollback(p)
             /\ Respond(p, [NoResp EXCEPT !.status = 404])
             /\ UNCHANGED <<nextId, cache>>
        ELSE /\ req' = [req EXCEPT ![p].note = note,
                                   ![p].pc = "destroyVersions"]
             /\ UNCHANGED <<notes, versions, nextId, lock, tx, resp, cache>>

\* await db.NoteVersion.destroy({where: { noteId }, transaction})
DeleteNote_DestroyVersions(p, ok) ==
  /\ At(p, "delete", "destroyVersions")
  /\ IF ~ok THEN Throw(p)
     ELSE /\ tx' = [tx EXCEPT ![p].delVersions = req[p].id]
          /\ req' = [req EXCEPT ![p].pc = "destroyNote"]
          /\ UNCHANGED <<notes, versions, nextId, lock, resp, cache>>

\* faulty variant of DeleteNote_DestroyNote: the DELETE does not wait for the
\* row lock
DeleteNote_DestroyNoteNoWait(p, ok) ==
  /\ At(p, "delete", "destroyNote")
  /\ IF ~ok THEN Throw(p)
     ELSE /\ tx' = [tx EXCEPT ![p].delNote = req[p].id]
          /\ req' = [req EXCEPT ![p].pc = "commit"]
          /\ UNCHANGED <<notes, versions, nextId, lock, resp, cache>>

\* await note.destroy({ transaction }): DELETE FROM Notes WHERE id = ?, which
\* waits for the row lock and holds it until the transaction ends
DeleteNote_DestroyNote(p, ok) ==
  /\ At(p, "delete", "destroyNote")
  /\ IF ~ok THEN Throw(p)
     ELSE /\ CanLock(p, req[p].id)
          /\ lock' = [lock EXCEPT ![req[p].id] =
                        IF notes[req[p].id].exists THEN p ELSE @]
          /\ tx' = [tx EXCEPT ![p].delNote = req[p].id]
          /\ req' = [req EXCEPT ![p].pc = "commit"]
          /\ UNCHANGED <<notes, versions, nextId, resp, cache>>

DeleteNote_Commit(p, ok) ==
  /\ At(p, "delete", "commit")
  /\ TxCommit(p, ok, "invalidate")

\* faulty variant of DeleteNote_Invalidate: a failing DEL is rethrown
DeleteNote_InvalidateThrowing(p, k) ==
  /\ At(p, "delete", "invalidate")
  /\ IF k < 3 THEN Throw(p) /\ UNCHANGED <<notes, versions>>
     ELSE /\ cache' = InvalidateAllNoteCache(cache, req[p].id, req[p].user, k)
          /\ req' = [req EXCEPT ![p].pc = "invalidateSearch"]
          /\ UNCHANGED <<notes, versions, nextId, lock, tx, resp>>

DeleteNote_Invalidate(p, k) ==
  /\ At(p, "delete", "invalidate")
  /\ cache' = InvalidateAllNoteCache(cache, req[p].id, req[p].user, k)
  /\ req' = [req EXCEPT ![p].pc = "invalidateSearch"]
  /\ UNCHANGED <<notes, versions, nextId, lock, tx, resp>>

DeleteNote_InvalidateSearch(p, ok) ==
  /\ At(p, "delete", "invalidateSearch")
  /\ cache' = InvalidateSearchResults(cache, req[p].user, ok)
  /\ Respond(p, [NoResp EXCEPT !.status = 200])
  /\ UNCHANGED <<notes, versions, nextId, lock, tx>>


(***************************************************************************)
(* Reads through the cache                                                 *)
(***************************************************************************)
\* LIKE '%q%' on title or content (titles and contents are one character)
Matches(note, q) == q = "" \/ note.title = q \/ note.content = q

RECURSIVE NoteList(_, _, _)
\* Note.findAll({where: {userId, isDeleted: false [, title/content LIKE q]}})
\* over the ids n..MaxNotes
NoteList(n, u, q) ==
  IF n > MaxNotes THEN <<>>
  ELSE (IF /\ notes[n].exists /\ notes[n].userId = u
           /\ ~notes[n].isDeleted /\ Matches(notes[n], q)
        THEN <<notes[n]>> ELSE <<>>) \o NoteList(n + 1, u, q)

RECURSIVE SortDesc(_)
\* order: [['version', 'DESC']]
SortDesc(s) ==
  IF s = <<>> THEN <<>>
  ELSE LET i == Min({j \in DOMAIN s : \A k \in DOMAIN s : s[k].version <= s[j].version})
       IN <<s[i]>> \o SortDesc(SubSeq(s, 1, i - 1) \o SubSeq(s, i + 1, Len(s)))

\* NoteVersion.findAll({where: {noteId}, order: [['version', 'DESC']]})
VersionList(n) == SortDesc(SelectSeq(versions, LAMBDA r : r.noteId = n))

NoteResp(status, note) ==
  [NoResp EXCEPT !.status = status, !.version = note.version,
                 !.title = note.title, !.content = note.content,
                 !.isDeleted = note.isDeleted]

StartGetNote(p, u, n) ==
  /\ Begin(p, [IdleReq EXCEPT !.op = "getNote", !.pc = "cacheGet",
                              !.user = u, !.id = n,
                              !.arrivalDeleted = ArrivalDeleted,
                              !.arrivalGone = ArrivalGone,
                              !.arrivalUpdated = ArrivalUpdated,
                              !.arrivalSettled = ArrivalSettled])
  /\ UNCHANGED <<notes, versions, nextId, lock, tx, cache>>

\* faulty variant of GetNoteById_CacheGet: a cached note entry is served
\* whether or not it is marked deleted
GetNoteById_CacheGetAny(p, ok) ==
  /\ At(p, "getNote", "cacheGet")
  /\ LET cachedNote == IF ok THEN cache.note[req[p].id] ELSE NoNote
     IN IF cachedNote.exists /\ cachedNote.userId = req[p].user
        THEN Respond(p, NoteResp(200, cachedNote))
        ELSE /\ req' = [req EXCEPT ![p].pc = "find"]
             /\ UNCHANGED resp
  /\ UNCHANGED <<notes, versions, nextId, lock, tx, cache>>

\* const cachedNote = await noteCache.getNote(noteId); a failing get is a miss
GetNoteById_CacheGet(p, ok) ==
  /\ At(p, "getNote", "cacheGet")
  /\ LET cachedNote == IF ok THEN cache.note[req[p].id] ELSE NoNote
     IN IF cachedNote.exists /\ cachedNote.userId = req[p].user
           /\ ~cachedNote.isDeleted
        THEN Respond(p, NoteResp(200, cachedNote))
        ELSE /\ req' = [req EXCEPT ![p].pc = "find"]
             /\ UNCHANGED resp
  /\ UNCHANGED <<notes, versions, nextId, lock, tx, cache>>

\* const note = await db.Note.findOne({where: {id, userId, isDeleted: false}})
GetNoteById_Find(p, ok) ==
  /\ At(p, "getNote", "find")
  /\ LET note == FindNote(req[p].id, req[p].user, TRUE)
     IN IF ~ok THEN Respond(p, [NoResp EXCEPT !.status = 500])
        ELSE IF ~note.exists THEN Respond(p, [NoResp EXCEPT !.status = 404])
        ELSE /\ req' = [req EXCEPT ![p].note = note, ![p].pc = "cacheSet"]
             /\ UNCHANGED resp
  /\ UNCHANGED <<notes, versions, nextId, lock, tx, cache>>

\* await noteCache.cacheNote(note); return res.json(note)
GetNoteById_CacheSet(p, ok) ==
  /\ At(p, "getNote", "cacheSet")
  /\ cache' = IF ok THEN [cache EXCEPT !.note[req[p].id] = req[p].note]
              ELSE cache
  /\ Respond(p, NoteResp(200, req[p].note))
  /\ UNCHANGED <<notes, versions, nextId, lock, tx>>

StartGetVersions(p, u, n) ==
  /\ Begin(p, [IdleReq EXCEPT !.op = "getVersions", !.pc = "cacheGet",
                              !.user = u, !.id = n,
                              !.arrivalDeleted = ArrivalDeleted,
                              !.arrivalGone = ArrivalGone,
                              !.arrivalUpdated = ArrivalUpdated,
                              !.arrivalSettled = ArrivalSettled])
  /\ UNCHANGED <<notes, versions, nextId, lock, tx, cache>>

\* faulty variant of GetNoteVersions_CacheGet: a cached version list is served
\* without looking at the owner of the cached note
GetNoteVersions_CacheGetAny(p, ok1, ok2) ==
  /\ At(p, "getVersions", "cacheGet")
  /\ LET cachedVersions == IF ok1 THEN cache.versions[req[p].id] ELSE CacheMiss
     IN IF cachedVersions.hit
        THEN Respond(p, [NoResp EXCEPT !.status = 200,
                                       !.rows = cachedVersions.rows])
        ELSE /\ req' = [req EXCEPT ![p].pc = "find"]
             /\ UNCHANGED resp
  /\ UNCHANGED <<notes, versions, nextId, lock, tx, cache>>

\* cachedVersions = await noteCache.getNoteVersions(noteId); if present,
\* cachedNote = await noteCache.getNote(noteId) decides the ownership
GetNoteVersions_CacheGet(p, ok1, ok2) ==
  /\ At(p, "getVersions", "cacheGet")
  /\ LET cachedVersions == IF ok1 THEN cache.versions[req[p].id] ELSE CacheMiss
         cachedNote == IF ok2 THEN cache.note[req[p].id] ELSE NoNote
     IN IF cachedVersions.hit /\ cachedNote.exists
           /\ cachedNote.userId = req[p].user
        THEN Respond(p, [NoResp EXCEPT !.status = 200,
                                       !.rows = cachedVersions.rows])
        ELSE /\ req' = [req EXCEPT ![p].pc = "find"]
             /\ UNCHANGED resp
  /\ UNCHANGED <<notes, versions, nextId, lock, tx, cache>>

\* const note = await db.Note.findOne({where: {id, userId}})
GetNoteVersions_Find(p, ok) ==
  /\ At(p, "getVersions", "find")
  /\ LET note == FindNote(req[p].id, req[p].user, FALSE)
     IN IF ~ok THEN Respond(p, [NoResp EXCEPT !.status = 500])
        ELSE IF ~note.exists THEN Respond(p, [NoResp EXCEPT !.status = 404])
        ELSE /\ req' = [req EXCEPT ![p].note = note, ![p].pc = "findAll"]
             /\ UNCHANGED resp
  /\ UNCHANGED <<notes, versions, nextId, lock, tx, cache>>

\* const versions = await db.NoteVersion.findAll({where: {noteId}, order})
GetNoteVersions_FindAll(p, ok) ==
  /\ At(p, "getVersions", "findAll")
  /\ IF ~ok THEN Respond(p, [NoResp EXCEPT !.status = 500])
     ELSE /\ req' = [req EXCEPT ![p].rows = VersionList(req[p].id),
                                ![p].pc = "cacheSet"]
          /\ UNCHANGED resp
  /\ UNCHANGED <<notes, versions, nextId, lock, tx, cache>>

\* await Promise.all([cacheNote(note), cacheNoteVersions(noteId, versions)])
GetNoteVersions_CacheSet(p, ok1, ok2) ==
  /\ At(p, "getVersions", "cacheSet")
  /\ cache' = [cache EXCEPT
       !.note[req[p].id] = IF ok1 THEN req[p].note ELSE @,
       !.versions[req[p].id] = IF ok2 THEN [hit |-> TRUE, rows |-> req[p].rows]
                               ELSE @]
  /\ Respond(p, [NoResp EXCEPT !.status = 200, !.rows = req[p].rows])
  /\ UNCHANGED <<notes, versions, nextId, lock, tx>>

StartGetAll(p, u) ==
  /\ Begin(p, [IdleReq EXCEPT !.op = "getAll", !.pc = "cacheGet", !.user = u,
                              !.arrivalDeleted = ArrivalDeleted,
                              !.arrivalGone = ArrivalGone,
                              !.arrivalUpdated = ArrivalUpdated,
                              !.arrivalSettled = ArrivalSettled])
  /\ UNCHANGED <<notes, versions, nextId, lock, tx, cache>>

\* const cachedNotes = await noteCache.getUserNotes(userId)
GetAllNotes_CacheGet(p, ok) ==
  /\ At(p, "getAll", "cacheGet")
  /\ LET cachedNotes == IF ok THEN cache.userNotes[req[p].user] ELSE CacheMiss
     IN IF cachedNotes.hit
        THEN Respond(p, [NoResp EXCEPT !.status = 200, !.rows = cachedNotes.rows])
        ELSE /\ req' = [req EXCEPT ![p].pc = "findAll"]
             /\ UNCHANGED resp
  /\ UNCHANGED <<notes, versions, nextId, lock, tx, cache>>

\* const notes = await db.Note.findAll({where: {userId, isDeleted: false}})
GetAllNotes_FindAll(p, ok) ==
  /\ At(p, "getAll", "findAll")
  /\ IF ~ok THEN Respond(p, [NoResp EXCEPT !.status = 500])
     ELSE /\ req' = [req EXCEPT ![p].rows = NoteList(1, req[p].user, ""),
                                ![p].pc = "cacheSet"]
          /\ UNCHANGED resp
  /\ UNCHANGED <<notes, versions, nextId, lock, tx, cache>>

\* await noteCache.cacheUserNotes(userId, notes); return res.json(notes)
GetAllNotes_CacheSet(p, ok) ==
  /\ At(p, "getAll", "cacheSet")
  /\ cache' = IF ok THEN [cache EXCEPT !.userNotes[req[p].user] =
                                          [hit |-> TRUE, rows |-> req[p].rows]]
              ELSE cache
  /\ Respond(p, [NoResp EXCEPT !.status = 200, !.rows = req[p].rows])
  /\ UNCHANGED <<notes, versions, nextId, lock, tx>>

StartSearch(p, u, q) ==
  /\ Begin(p, [IdleReq EXCEPT !.op = "search", !.pc = "cacheGet", !.user = u,
                              !.query = q,
                              !.arrivalDeleted = ArrivalDeleted,
                              !.arrivalGone = ArrivalGone])
  /\ UNCHANGED <<notes, versions, nextId, lock, tx, cache>>

\* const cachedResults = await noteCache.getSearchResults(userId, searchQuery)
SearchNotes_CacheGet(p, ok) ==
  /\ At(p, "search", "cacheGet")
  /\ LET cachedResults == IF ok THEN cache.search[req[p].user][req[p].query]
                          ELSE CacheMiss
     IN IF cachedResults.hit
        THEN Respond(p, [NoResp EXCEPT !.status = 200,
                                       !.rows = cachedResults.rows])
        ELSE /\ req' = [req EXCEPT ![p].pc = "findAll"]
             /\ UNCHANGED resp
  /\ UNCHANGED <<notes, versions, nextId, lock, tx, cache>>

\* searchResults = await db.Note.findAll({where: {userId, isDeleted: false,
\*   [Op.or]: [{title: {[Op.like]: q}}, {content: {[Op.like]: q}}]}})
SearchNotes_FindAll(p, ok) ==
  /\ At(p, "search", "findAll")
  /\ IF ~ok THEN Respond(p, [NoResp EXCEPT !.status = 500])
     ELSE /\ req' = [req EXCEPT
                       ![p].rows = NoteList(1, req[p].user, req[p].query),
                       ![p].pc = "cacheSet"]
          /\ UNCHANGED resp
  /\ UNCHANGED <<notes, versions, nextId, lock, tx, cache>>

\* await noteCache.cacheSearchResults(userId, searchQuery, searchResults)
SearchNotes_CacheSet(p, ok) ==
  /\ At(p, "search", "cacheSet")
  /\ cache' = IF ok THEN [cache EXCEPT !.search[req[p].user][req[p].query] =
                                          [hit |-> TRUE, rows |-> req[p].rows]]
              ELSE cache
  /\ Respond(p, [NoResp EXCEPT !.status = 200, !.rows = req[p].rows])
  /\ UNCHANGED <<notes, versions, nextId, lock, tx>>


(***************************************************************************)
(* Specifications                                                          *)
(***************************************************************************)
\* arrival of a mutation request with inputs from the given sets; the notes
\* N are the ids the requests name and the ids create may allocate
StartMutation(p, U, N, T, C, V, S) ==
  \/ \E u \in U, t \in T, c \in C : StartCreate(p, u, t, c, Cardinality(N))
  \/ \E u \in U, n \in N, t \in T, c \in C, v \in V :
       StartUpdate(p, u, n, t, c, v)
  \/ \E u \in U, n \in N, v \in V : StartSoftDelete(p, u, n, v)
  \/ \E u \in U, n \in N, v \in V : StartRevert(p, u, n, v)
  \/ \E u \in U, n \in N, t \in T, c \in C, v \in V, s \in S :
       StartResolve(p, u, n, t, c, v, s)
  \/ \E u \in U, n \in N : StartDelete(p, u, n)

\* one step of a mutation handler
MutationStep(p) ==
  \/ \E ok \in BOOLEAN : CreateNote_NoteCreate(p, ok)
  \/ \E ok \in BOOLEAN : CreateNote_VersionCreate(p, ok)
  \/ \E ok \in BOOLEAN, ok2 \in BOOLEAN : CreateNote_Invalidate(p, ok, ok2)
  \/ \E ok \in BOOLEAN : UpdateNote_Find(p, ok)
  \/ \E ok \in BOOLEAN : UpdateNote_Check(p, ok)
  \/ \E ok \in BOOLEAN : UpdateNote_Insert(p, ok)
  \/ \E ok \in BOOLEAN : UpdateNote_Commit(p, ok)
  \/ \E k \in 0..3 : UpdateNote_Invalidate(p, k)
  \/ \E ok \in BOOLEAN : SoftDeleteNote_Find(p, ok)
  \/ \E ok \in BOOLEAN : SoftDeleteNote_Check(p, ok)
  \/ \E ok \in BOOLEAN : SoftDeleteNote_Insert(p, ok)
  \/ \E ok \in BOOLEAN : SoftDeleteNote_Commit(p, ok)
  \/ \E k \in 0..3 : SoftDeleteNote_Invalidate(p, k)
  \/ \E ok \in BOOLEAN : SoftDeleteNote_InvalidateSearch(p, ok)
  \/ \E ok \in BOOLEAN : RevertToVersion_Find(p, ok)
  \/ \E ok \in BOOLEAN : RevertToVersion_FindVersion(p, ok)
  \/ \E ok \in BOOLEAN : RevertToVersion_Update(p, ok)
  \/ \E ok \in BOOLEAN : RevertToVersion_Insert(p, ok)
  \/ \E ok \in BOOLEAN : RevertToVersion_Commit(p, ok)
  \/ \E k \in 0..3 : RevertToVersion_Invalidate(p, k)
  \/ \E ok \in BOOLEAN : ResolveConflict_Find(p, ok)
  \/ \E ok \in BOOLEAN : ResolveConflict_Check(p, ok)
  \/ \E ok \in BOOLEAN : ResolveConflict_Insert(p, ok)
  \/ \E ok \in BOOLEAN : ResolveConflict_Commit(p, ok)
  \/ \E k \in 0..3 : ResolveConflict_Invalidate(p, k)
  \/ \E ok \in BOOLEAN : ResolveConflict_InvalidateSearch(p, ok)
  \/ \E ok \in BOOLEAN : DeleteNote_Find(p, ok)
  \/ \E ok \in BOOLEAN : DeleteNote_DestroyVersions(p, ok)
  \/ \E ok \in BOOLEAN : DeleteNote_DestroyNote(p, ok)
  \/ \E ok \in BOOLEAN : DeleteNote_Commit(p, ok)
  \/ \E k \in 0..3 : DeleteNote_Invalidate(p, k)
  \/ \E ok \in BOOLEAN : DeleteNote_InvalidateSearch(p, ok)

StartRead(p, U, N, Q) ==
  \/ \E u \in U, n \in N : StartGetNote(p, u, n)
  \/ \E u \in U, n \in N : StartGetVersions(p, u, n)
  \/ \E u \in U : StartGetAll(p, u)
  \/ \E u \in U, q \in Q : StartSearch(p, u, q)

ReadStep(p) ==
  \/ \E ok \in BOOLEAN : GetNoteById_CacheGet(p, ok)
  \/ \E ok \in BOOLEAN : GetNoteById_Find(p, ok)
  \/ \E ok \in BOOLEAN : GetNoteById_CacheSet(p, ok)
  \/ \E ok \in BOOLEAN, ok2 \in BOOLEAN : GetNoteVersions_CacheGet(p, ok, ok2)
  \/ \E ok \in BOOLEAN : GetNoteVersions_Find(p, ok)
  \/ \E ok \in BOOLEAN : GetNoteVersions_FindAll(p, ok)
  \/ \E ok \in BOOLEAN, ok2 \in BOOLEAN : GetNoteVersions_CacheSet(p, ok, ok2)
  \/ \E ok \in BOOLEAN : GetAllNotes_CacheGet(p, ok)
  \/ \E ok \in BOOLEAN : GetAllNotes_FindAll(p, ok)
  \/ \E ok \in BOOLEAN : GetAllNotes_CacheSet(p, ok)
  \/ \E ok \in BOOLEAN : SearchNotes_CacheGet(p, ok)
  \/ \E ok \in BOOLEAN : SearchNotes_FindAll(p, ok)
  \/ \E ok \in BOOLEAN : SearchNotes_CacheSet(p, ok)

\* the text a client submits
TitleOf(p) == IF p = 1 THEN "A" ELSE "B"

\* version parameters arrive as strings (JSON body, query string, path)
CoreVersions == {<<"1">>, <<"2">>, <<"2", "x">>}

\* concurrent mutation requests of one owner
Next ==
  \E p \in Procs :
    \/ StartMutation(p, {1}, 1..CoreNotes, {TitleOf(p)}, {"x"}, CoreVersions,
                     {"merge"})
    \/ MutationStep(p)

Spec == Init /\ [][Next]_vars


\* the clients that write in SpecCache; the other clients read
Writers == {1}

\* reads through the cache racing with create and softDelete of one owner
NextCache ==
  \E p \in Procs :
    \/ p \notin Writers /\ StartRead(p, {1}, 1..CoreNotes, {"A"})
    \/ ReadStep(p)
    \/ p \in Writers /\ StartCreate(p, 1, "A", "x", CoreNotes)
    \/ \E ok \in BOOLEAN : CreateNote_NoteCreate(p, ok)
    \/ \E ok \in BOOLEAN : CreateNote_VersionCreate(p, ok)
    \/ \E ok \in BOOLEAN, ok2 \in BOOLEAN : CreateNote_Invalidate(p, ok, ok2)
    \/ \E n \in 1..CoreNotes, v \in {<<"1">>, <<"2">>} :
         p \in Writers /\ StartSoftDelete(p, 1, n, v)
    \/ \E ok \in BOOLEAN : SoftDeleteNote_Find(p, ok)
    \/ \E ok \in BOOLEAN : SoftDeleteNote_Check(p, ok)
    \/ \E ok \in BOOLEAN : SoftDeleteNote_Insert(p, ok)
    \/ \E ok \in BOOLEAN : SoftDeleteNote_Commit(p, ok)
    \/ \E k \in 0..3 : SoftDeleteNote_Invalidate(p, k)
    \/ \E ok \in BOOLEAN : SoftDeleteNote_InvalidateSearch(p, ok)

SpecCache == Init /\ [][NextCache]_vars

(***************************************************************************)
(* Properties                                                              *)
(***************************************************************************)

\* reads through the cache racing with create and revert of one owner
NextRevertCache ==
  \E p \in Procs :
    \/ p \notin Writers /\ StartRead(p, {1}, 1..CoreNotes, {"A"})
    \/ ReadStep(p)
    \/ p \in Writers /\ StartCreate(p, 1, "A", "x", CoreNotes)
    \/ \E ok \in BOOLEAN : CreateNote_NoteCreate(p, ok)
    \/ \E ok \in BOOLEAN : CreateNote_VersionCreate(p, ok)
    \/ \E ok \in BOOLEAN, ok2 \in BOOLEAN : CreateNote_Invalidate(p, ok, ok2)
    \/ \E n \in 1..CoreNotes, v \in {<<"1">>, <<"2">>} :
         p \in Writers /\ StartRevert(p, 1, n, v)
    \/ \E ok \in BOOLEAN : RevertToVersion_Find(p, ok)
    \/ \E ok \in BOOLEAN : RevertToVersion_FindVersion(p, ok)
    \/ \E ok \in BOOLEAN : RevertToVersion_Update(p, ok)
    \/ \E ok \in BOOLEAN : RevertToVersion_Insert(p, ok)
    \/ \E ok \in BOOLEAN : RevertToVersion_Commit(p, ok)
    \/ \E k \in 0..3 : RevertToVersion_Invalidate(p, k)

SpecRevertCache == Init /\ [][NextRevertCache]_vars

\* body('resolutionStrategy').isIn([...])
Strategies == {"client-wins", "server-wins", "merge"}

\* concurrent create, update and resolveConflict requests of one owner, the
\* resolutions under every strategy
NextResolve ==
  \E p \in Procs :
    \/ StartCreate(p, 1, TitleOf(p), "x", CoreNotes)
    \/ \E ok \in BOOLEAN : CreateNote_NoteCreate(p, ok)
    \/ \E ok \in BOOLEAN : CreateNote_VersionCreate(p, ok)
    \/ \E ok \in BOOLEAN, ok2 \in BOOLEAN : CreateNote_Invalidate(p, ok, ok2)
    \/ \E n \in 1..CoreNotes, v \in {<<"1">>, <<"2">>} :
         StartUpdate(p, 1, n, TitleOf(p), "x", v)
    \/ \E ok \in BOOLEAN : UpdateNote_Find(p, ok)
    \/ \E ok \in BOOLEAN : UpdateNote_Check(p, ok)
    \/ \E ok \in BOOLEAN : UpdateNote_Insert(p, ok)
    \/ \E ok \in BOOLEAN : UpdateNote_Commit(p, ok)
    \/ \E k \in 0..3 : UpdateNote_Invalidate(p, k)
    \/ \E n \in 1..CoreNotes, v \in {<<"1">>, <<"2">>}, s \in Strategies :
         StartResolve(p, 1, n, TitleOf(p), "y", v, s)
    \/ \E ok \in BOOLEAN : ResolveConflict_Find(p, ok)
    \/ \E ok \in BOOLEAN : ResolveConflict_Check(p, ok)
    \/ \E ok \in BOOLEAN : ResolveConflict_Insert(p, ok)
    \/ \E ok \in BOOLEAN : ResolveConflict_Commit(p, ok)
    \/ \E k \in 0..3 : ResolveConflict_Invalidate(p, k)
    \/ \E ok \in BOOLEAN : ResolveConflict_InvalidateSearch(p, ok)

SpecResolve == Init /\ [][NextResolve]_vars

\* the conflict-then-resolve protocol: concurrent create, update, softDelete
\* and permanent delete requests of one owner, and resolutions of the
\* conflicts that the updates report
NextProtocol ==
  \E p \in Procs :
    \/ StartCreate(p, 1, TitleOf(p), "x", CoreNotes)
    \/ \E ok \in BOOLEAN : CreateNote_NoteCreate(p, ok)
    \/ \E ok \in BOOLEAN : CreateNote_VersionCreate(p, ok)
    \/ \E ok \in BOOLEAN, ok2 \in BOOLEAN : CreateNote_Invalidate(p, ok, ok2)
    \/ \E n \in 1..CoreNotes, v \in {<<"1">>, <<"2">>} :
         StartUpdate(p, 1, n, TitleOf(p), "x", v)
    \/ \E ok \in BOOLEAN : UpdateNote_Find(p, ok)
    \/ \E ok \in BOOLEAN : UpdateNote_Check(p, ok)
    \/ \E ok \in BOOLEAN : UpdateNote_Insert(p, ok)
    \/ \E ok \in BOOLEAN : UpdateNote_Commit(p, ok)
    \/ \E k \in 0..3 : UpdateNote_Invalidate(p, k)
    \/ \E n \in 1..CoreNotes, v \in {<<"1">>, <<"2">>} :
         StartSoftDelete(p, 1, n, v)
    \/ \E ok \in BOOLEAN : SoftDeleteNote_Find(p, ok)
    \/ \E ok \in BOOLEAN : SoftDeleteNote_Check(p, ok)
    \/ \E ok \in BOOLEAN : SoftDeleteNote_Insert(p, ok)
    \/ \E ok \in BOOLEAN : SoftDeleteNote_Commit(p, ok)
    \/ \E k \in 0..3 : SoftDeleteNote_Invalidate(p, k)
    \/ \E ok \in BOOLEAN : SoftDeleteNote_InvalidateSearch(p, ok)
    \/ \E n \in 1..CoreNotes : StartDelete(p, 1, n)
    \/ \E ok \in BOOLEAN : DeleteNote_Find(p, ok)
    \/ \E ok \in BOOLEAN : DeleteNote_DestroyVersions(p, ok)
    \/ \E ok \in BOOLEAN : DeleteNote_DestroyNote(p, ok)
    \/ \E ok \in BOOLEAN : DeleteNote_Commit(p, ok)
    \/ \E k \in 0..3 : DeleteNote_Invalidate(p, k)
    \/ \E ok \in BOOLEAN : DeleteNote_InvalidateSearch(p, ok)
    \/ \E v \in {<<"1">>, <<"2">>, <<"3">>} :
         StartResolveAfterConflict(p, TitleOf(p), "y", v, "merge")
    \/ \E ok \in BOOLEAN : ResolveConflict_Find(p, ok)
    \/ \E ok \in BOOLEAN : ResolveConflict_Check(p, ok)
    \/ \E ok \in BOOLEAN : ResolveConflict_Insert(p, ok)
    \/ \E ok \in BOOLEAN : ResolveConflict_Commit(p, ok)
    \/ \E k \in 0..3 : ResolveConflict_Invalidate(p, k)
    \/ \E ok \in BOOLEAN : ResolveConflict_InvalidateSearch(p, ok)

SpecProtocol == Init /\ [][NextProtocol]_vars

\* reads through the cache racing with create, softDelete and permanent
\* delete of one owner
NextDeleteCache ==
  \E p \in Procs :
    \/ p \notin Writers /\ StartRead(p, {1}, 1..CoreNotes, {"A"})
    \/ ReadStep(p)
    \/ p \in Writers /\ StartCreate(p, 1, "A", "x", CoreNotes)
    \/ \E ok \in BOOLEAN : CreateNote_NoteCreate(p, ok)
    \/ \E ok \in BOOLEAN : CreateNote_VersionCreate(p, ok)
    \/ \E ok \in BOOLEAN, ok2 \in BOOLEAN : CreateNote_Invalidate(p, ok, ok2)
    \/ \E n \in 1..CoreNotes :
         p \in Writers /\ StartSoftDelete(p, 1, n, <<"1">>)
    \/ \E ok \in BOOLEAN : SoftDeleteNote_Find(p, ok)
    \/ \E ok \in BOOLEAN : SoftDeleteNote_Check(p, ok)
    \/ \E ok \in BOOLEAN : SoftDeleteNote_Insert(p, ok)
    \/ \E ok \in BOOLEAN : SoftDeleteNote_Commit(p, ok)
    \/ \E k \in 0..3 : SoftDeleteNote_Invalidate(p, k)
    \/ \E ok \in BOOLEAN : SoftDeleteNote_InvalidateSearch(p, ok)
    \/ \E n \in 1..CoreNotes : p \in Writers /\ StartDelete(p, 1, n)
    \/ \E ok \in BOOLEAN : DeleteNote_Find(p, ok)
    \/ \E ok \in BOOLEAN : DeleteNote_DestroyVersions(p, ok)
    \/ \E ok \in BOOLEAN : DeleteNote_DestroyNote(p, ok)
    \/ \E ok \in BOOLEAN : DeleteNote_Commit(p, ok)
    \/ \E k \in 0..3 : DeleteNote_Invalidate(p, k)
    \/ \E ok \in BOOLEAN : DeleteNote_InvalidateSearch(p, ok)

SpecDeleteCache == Init /\ [][NextDeleteCache]_vars

\* reads of a note, its version list and its owner's collection through the
\* cache, racing with create and update of one owner
NextUpdateCache ==
  \E p \in Procs :
    \/ \E n \in 1..CoreNotes : p \notin Writers /\ StartGetNote(p, 1, n)
    \/ \E ok \in BOOLEAN : GetNoteById_CacheGet(p, ok)
    \/ \E ok \in BOOLEAN : GetNoteById_Find(p, ok)
    \/ \E ok \in BOOLEAN : GetNoteById_CacheSet(p, ok)
    \/ \E n \in 1..CoreNotes : p \notin Writers /\ StartGetVersions(p, 1, n)
    \/ \E ok \in BOOLEAN, ok2 \in BOOLEAN : GetNoteVersions_CacheGet(p, ok, ok2)
    \/ \E ok \in BOOLEAN : GetNoteVersions_Find(p, ok)
    \/ \E ok \in BOOLEAN : GetNoteVersions_FindAll(p, ok)
    \/ \E ok \in BOOLEAN, ok2 \in BOOLEAN : GetNoteVersions_CacheSet(p, ok, ok2)
    \/ p \notin Writers /\ StartGetAll(p, 1)
    \/ \E ok \in BOOLEAN : GetAllNotes_CacheGet(p, ok)
    \/ \E ok \in BOOLEAN : GetAllNotes_FindAll(p, ok)
    \/ \E ok \in BOOLEAN : GetAllNotes_CacheSet(p, ok)
    \/ p \in Writers /\ StartCreate(p, 1, "A", "x", CoreNotes)
    \/ \E ok \in BOOLEAN : CreateNote_NoteCreate(p, ok)
    \/ \E ok \in BOOLEAN : CreateNote_VersionCreate(p, ok)
    \/ \E ok \in BOOLEAN, ok2 \in BOOLEAN : CreateNote_Invalidate(p, ok, ok2)
    \/ \E n \in 1..CoreNotes, v \in {<<"1">>, <<"2">>} :
         p \in Writers /\ StartUpdate(p, 1, n, "B", "y", v)
    \/ \E ok \in BOOLEAN : UpdateNote_Find(p, ok)
    \/ \E ok \in BOOLEAN : UpdateNote_Check(p, ok)
    \/ \E ok \in BOOLEAN : UpdateNote_Insert(p, ok)
    \/ \E ok \in BOOLEAN : UpdateNote_Commit(p, ok)
    \/ \E k \in 0..3 : UpdateNote_Invalidate(p, k)

SpecUpdateCache == Init /\ [][NextUpdateCache]_vars

\* every mutation of one owner, issued one after the other by one client,
\* with reads of the note, its version list and the collection through the
\* cache by the other clients
NextAllCache ==
  \E p \in Procs :
    \/ \E n \in 1..CoreNotes : p \notin Writers /\ StartGetNote(p, 1, n)
    \/ \E ok \in BOOLEAN : GetNoteById_CacheGet(p, ok)
    \/ \E ok \in BOOLEAN : GetNoteById_Find(p, ok)
    \/ \E ok \in BOOLEAN : GetNoteById_CacheSet(p, ok)
    \/ \E n \in 1..CoreNotes : p \notin Writers /\ StartGetVersions(p, 1, n)
    \/ \E ok \in BOOLEAN, ok2 \in BOOLEAN : GetNoteVersions_CacheGet(p, ok, ok2)
    \/ \E ok \in BOOLEAN : GetNoteVersions_Find(p, ok)
    \/ \E ok \in BOOLEAN : GetNoteVersions_FindAll(p, ok)
    \/ \E ok \in BOOLEAN, ok2 \in BOOLEAN : GetNoteVersions_CacheSet(p, ok, ok2)
    \/ p \notin Writers /\ StartGetAll(p, 1)
    \/ \E ok \in BOOLEAN : GetAllNotes_CacheGet(p, ok)
    \/ \E ok \in BOOLEAN : GetAllNotes_FindAll(p, ok)
    \/ \E ok \in BOOLEAN : GetAllNotes_CacheSet(p, ok)
    \/ p \in Writers /\ StartMutation(p, {1}, 1..CoreNotes, {"A"}, {"x"},
                                      {<<"1">>}, {"merge"})
    \/ MutationStep(p)

SpecAllCache == Init /\ [][NextAllCache]_vars

\* concurrent mutations of one owner that all submit version 1
NextContend ==
  \E p \in Procs :
    \/ StartMutation(p, {1}, 1..CoreNotes, {TitleOf(p)}, {"x"}, {<<"1">>},
                     {"merge"})
    \/ MutationStep(p)

SpecContend == Init /\ [][NextContend]_vars

\* the NoteShares table: user 1, the owner of every note here, has granted
\* user 2 write permission on each of them; no handler of this model writes
\* the table
NoteShares ==
  {[noteId |-> n, ownerId |-> 1, sharedWithId |-> 2, permission |-> "write"] :
     n \in NoteIds}

\* user u holds a write share on the stored note n
HasWriteShare(n, u) ==
  /\ notes[n].exists
  /\ \E s \in NoteShares : /\ s.noteId = n /\ s.ownerId = notes[n].userId
                           /\ s.sharedWithId = u /\ s.permission = "write"

\* create by the owner, user 1, and updates of the note by the owner and by
\* user 2, who holds a write share
NextShare ==
  \E p \in Procs :
    \/ p = 1 /\ StartCreate(p, 1, TitleOf(p), "x", CoreNotes)
    \/ \E ok \in BOOLEAN : CreateNote_NoteCreate(p, ok)
    \/ \E ok \in BOOLEAN : CreateNote_VersionCreate(p, ok)
    \/ \E ok \in BOOLEAN, ok2 \in BOOLEAN : CreateNote_Invalidate(p, ok, ok2)
    \/ \E n \in 1..CoreNotes, v \in {<<"1">>, <<"2">>} :
         StartUpdate(p, IF p = 1 THEN 1 ELSE 2, n, TitleOf(p), "x", v)
    \/ \E ok \in BOOLEAN : UpdateNote_Find(p, ok)
    \/ \E ok \in BOOLEAN : UpdateNote_Check(p, ok)
    \/ \E ok \in BOOLEAN : UpdateNote_Insert(p, ok)
    \/ \E ok \in BOOLEAN : UpdateNote_Commit(p, ok)
    \/ \E k \in 0..3 : UpdateNote_Invalidate(p, k)

SpecShare == Init /\ [][NextShare]_vars

\* the kinds of key that carry a note, a version list or a user's collection
KeyKinds == {"note", "versions", "userNotes"}

\* faulty variant of Expire: the keys written by cacheNote carry no TTL
ExpireExceptNote(kind, id) ==
  /\ \/ /\ kind = "versions" /\ id \in NoteIds /\ cache.versions[id].hit
        /\ cache' = [cache EXCEPT !.versions[id] = CacheMiss]
     \/ /\ kind = "userNotes" /\ id \in Users /\ cache.userNotes[id].hit
        /\ cache' = [cache EXCEPT !.userNotes[id] = CacheMiss]
  /\ UNCHANGED <<notes, versions, nextId, lock, tx, req, resp>>

\* redisClient.setEx(key, ttl, ..) with ttl = DEFAULT_TTL = 300 s: Redis
\* removes the key once the TTL has elapsed
Expire(kind, id) ==
  /\ \/ /\ kind = "note" /\ id \in NoteIds /\ cache.note[id].exists
        /\ cache' = [cache EXCEPT !.note[id] = NoNote]
     \/ /\ kind = "versions" /\ id \in NoteIds /\ cache.versions[id].hit
        /\ cache' = [cache EXCEPT !.versions[id] = CacheMiss]
     \/ /\ kind = "userNotes" /\ id \in Users /\ cache.userNotes[id].hit
        /\ cache' = [cache EXCEPT !.userNotes[id] = CacheMiss]
  /\ UNCHANGED <<notes, versions, nextId, lock, tx, req, resp>>

\* the steps of the read handlers of the note, the version list and the
\* collection
CacheReadStep(p) ==
  \/ \E ok \in BOOLEAN : GetNoteById_CacheGet(p, ok)
  \/ \E ok \in BOOLEAN : GetNoteById_Find(p, ok)
  \/ \E ok \in BOOLEAN : GetNoteById_CacheSet(p, ok)
  \/ \E ok \in BOOLEAN, ok2 \in BOOLEAN : GetNoteVersions_CacheGet(p, ok, ok2)
  \/ \E ok \in BOOLEAN : GetNoteVersions_Find(p, ok)
  \/ \E ok \in BOOLEAN : GetNoteVersions_FindAll(p, ok)
  \/ \E ok \in BOOLEAN, ok2 \in BOOLEAN : GetNoteVersions_CacheSet(p, ok, ok2)
  \/ \E ok \in BOOLEAN : GetAllNotes_CacheGet(p, ok)
  \/ \E ok \in BOOLEAN : GetAllNotes_FindAll(p, ok)
  \/ \E ok \in BOOLEAN : GetAllNotes_CacheSet(p, ok)

\* reads through the cache racing with create and update of one owner, the
\* keys expiring after their TTL
NextTTL ==
  \/ NextUpdateCache
  \/ \E kind \in KeyKinds, id \in NoteIds \cup Users : Expire(kind, id)

\* every key was written with a TTL, so Redis removes it in the end; a
\* handler that awaits a cache or store call is resumed by the event loop
SpecTTL ==
  /\ Init /\ [][NextTTL]_vars
  /\ \A kind \in KeyKinds, id \in NoteIds \cup Users : WF_vars(Expire(kind, id))
  /\ \A p \in Procs : WF_vars(CacheReadStep(p))

\* Two runs side by side: client 1 works on note 1 and client 2 on note 2,
\* created alike.  Each request of client 1 is afterwards sent by client 2
\* for its own note; the keys of note 1 hold any snapshot a reader may have
\* left, the keys of note 2 are never populated.
Twin(n) == n + 1

\* the snapshots of note n that cacheNote may have left under its key: none,
\* the stored row, or the row as it was at an earlier version
NoteSnapshots(n) ==
  {NoNote} \cup
  {[notes[n] EXCEPT !.version = v, !.isDeleted = d] :
     v \in 1..notes[n].version, d \in {FALSE, notes[n].isDeleted}}

\* the lists that cacheNoteVersions may have left under the key of note n:
\* none, the stored list, or the list without its newest row
VersionSnapshots(n) ==
  {CacheMiss, [hit |-> TRUE, rows |-> VersionList(n)],
   [hit |-> TRUE, rows |-> Tail(VersionList(n))]}

\* between two requests the keys of note 1 take the content some reader left
CachePopulate ==
  /\ req[1].pc = "idle" /\ req[2].pc = "idle"
  /\ notes[1].exists /\ notes[Twin(1)].exists
  /\ \E e \in NoteSnapshots(1), l \in VersionSnapshots(1) :
       /\ cache.note[1] # e \/ cache.versions[1] # l
       /\ cache' = [cache EXCEPT !.note[1] = e, !.versions[1] = l]
  /\ UNCHANGED <<notes, versions, nextId, lock, tx, req, resp>>

\* client 1 sends a request for note 1
StartFirst ==
  /\ req[1].pc = "idle" /\ req[2].pc = "idle"
  /\ \/ StartCreate(1, 1, "A", "x", 1)
     \/ \E t \in {"A", "B"}, v \in {<<"1">>, <<"2">>} :
          StartUpdate(1, 1, 1, t, "x", v)
     \/ \E v \in {<<"1">>, <<"2">>} : StartSoftDelete(1, 1, 1, v)
     \/ \E v \in {<<"1">>, <<"2">>} : StartRevert(1, 1, 1, v)
     \/ \E t \in {"A", "B"}, v \in {<<"1">>, <<"2">>} :
          StartResolve(1, 1, 1, t, "x", v, "merge")

\* client 2 sends the request that client 1 had answered, for note 2
StartSecond ==
  /\ req[1].pc = "done" /\ req[2].pc = "idle"
  /\ LET r == req[1]
     IN \/ r.op = "create" /\ StartCreate(2, r.user, r.title, r.content, 2)
        \/ r.op = "update"
           /\ StartUpdate(2, r.user, Twin(r.id), r.title, r.content, r.ver)
        \/ r.op = "softDelete" /\ StartSoftDelete(2, r.user, Twin(r.id), r.ver)
        \/ r.op = "revert" /\ StartRevert(2, r.user, Twin(r.id), r.ver)
        \/ r.op = "resolve"
           /\ StartResolve(2, r.user, Twin(r.id), r.title, r.content, r.ver,
                           r.strategy)

\* both clients have their answers and are ready for the next request
NextRequest ==
  /\ req[1].pc = "done" /\ req[2].pc = "done"
  /\ req' = [p \in Procs |-> IdleReq]
  /\ resp' = [p \in Procs |-> NoResp]
  /\ UNCHANGED <<notes, versions, nextId, lock, tx, cache>>

\* one step of a handler of create, update, softDelete, revert or
\* resolveConflict whose store statements succeed; the DELs of an
\* invalidation may fail
StoreStep(p) ==
  \/ CreateNote_NoteCreate(p, TRUE)
  \/ CreateNote_VersionCreate(p, TRUE)
  \/ \E ok \in BOOLEAN, ok2 \in BOOLEAN : CreateNote_Invalidate(p, ok, ok2)
  \/ UpdateNote_Find(p, TRUE)
  \/ UpdateNote_Check(p, TRUE)
  \/ UpdateNote_Insert(p, TRUE)
  \/ UpdateNote_Commit(p, TRUE)
  \/ \E k \in 0..3 : UpdateNote_Invalidate(p, k)
  \/ SoftDeleteNote_Find(p, TRUE)
  \/ SoftDeleteNote_Check(p, TRUE)
  \/ SoftDeleteNote_Insert(p, TRUE)
  \/ SoftDeleteNote_Commit(p, TRUE)
  \/ \E k \in 0..3 : SoftDeleteNote_Invalidate(p, k)
  \/ \E ok \in BOOLEAN : SoftDeleteNote_InvalidateSearch(p, ok)
  \/ RevertToVersion_Find(p, TRUE)
  \/ RevertToVersion_FindVersion(p, TRUE)
  \/ RevertToVersion_Update(p, TRUE)
  \/ RevertToVersion_Insert(p, TRUE)
  \/ RevertToVersion_Commit(p, TRUE)
  \/ \E k \in 0..3 : RevertToVersion_Invalidate(p, k)
  \/ ResolveConflict_Find(p, TRUE)
  \/ ResolveConflict_Check(p, TRUE)
  \/ ResolveConflict_Insert(p, TRUE)
  \/ ResolveConflict_Commit(p, TRUE)
  \/ \E k \in 0..3 : ResolveConflict_Invalidate(p, k)
  \/ \E ok \in BOOLEAN : ResolveConflict_InvalidateSearch(p, ok)

NextTwin ==
  \/ StartFirst
  \/ StartSecond
  \/ NextRequest
  \/ CachePopulate
  \/ \E p \in {1, 2} : StoreStep(p)

SpecTwin == Init /\ [][NextTwin]_vars

\* user 1 creates, updates and reads a note through the cache; user 2, who
\* owns nothing, sends every request that names a note, and lists its own
\* collection
NextOwner ==
  \E p \in Procs :
    \/ p = 1 /\ StartCreate(p, 1, "A", "x", CoreNotes)
    \/ \E ok \in BOOLEAN : CreateNote_NoteCreate(p, ok)
    \/ \E ok \in BOOLEAN : CreateNote_VersionCreate(p, ok)
    \/ \E ok \in BOOLEAN, ok2 \in BOOLEAN : CreateNote_Invalidate(p, ok, ok2)
    \/ \E n \in 1..CoreNotes : StartUpdate(p, p, n, "B", "y", <<"1">>)
    \/ \E ok \in BOOLEAN : UpdateNote_Find(p, ok)
    \/ \E ok \in BOOLEAN : UpdateNote_Check(p, ok)
    \/ \E ok \in BOOLEAN : UpdateNote_Insert(p, ok)
    \/ \E ok \in BOOLEAN : UpdateNote_Commit(p, ok)
    \/ \E k \in 0..3 : UpdateNote_Invalidate(p, k)
    \/ \E n \in 1..CoreNotes : p # 1 /\ StartSoftDelete(p, p, n, <<"1">>)
    \/ \E ok \in BOOLEAN : SoftDeleteNote_Find(p, ok)
    \/ \E n \in 1..CoreNotes : p # 1 /\ StartRevert(p, p, n, <<"1">>)
    \/ \E ok \in BOOLEAN : RevertToVersion_Find(p, ok)
    \/ \E n \in 1..CoreNotes :
         p # 1 /\ StartResolve(p, p, n, "B", "y", <<"1">>, "merge")
    \/ \E ok \in BOOLEAN : ResolveConflict_Find(p, ok)
    \/ \E n \in 1..CoreNotes : p # 1 /\ StartDelete(p, p, n)
    \/ \E ok \in BOOLEAN : DeleteNote_Find(p, ok)
    \/ \E n \in 1..CoreNotes : StartGetNote(p, p, n)
    \/ \E n \in 1..CoreNotes : StartGetVersions(p, p, n)
    \/ StartGetAll(p, p)
    \/ CacheReadStep(p)

SpecOwner == Init /\ [][NextOwner]_vars

\* DELETE /notes/:id?version=v: router.delete('/:id', authenticate,
\* validateNoteId, deleteNote); the version of the query string goes with the
\* request, and deleteNote does not read it
StartDeleteVersion(p, u, n, v) ==
  /\ Begin(p, [IdleReq EXCEPT !.op = "delete", !.pc = "find", !.user = u,
                              !.id = n, !.ver = v,
                              !.arrivalVersion = ArrivalVersion(n)])
  /\ tx' = [tx EXCEPT ![p] = [NoTx EXCEPT !.active = TRUE]]
  /\ UNCHANGED <<notes, versions, nextId, lock, cache>>

\* create and update by one client, DELETE /notes/:id?version=v by the others
NextDeleteVersion ==
  \E p \in Procs :
    \/ p \in Writers /\ StartCreate(p, 1, "A", "x", CoreNotes)
    \/ \E ok \in BOOLEAN : CreateNote_NoteCreate(p, ok)
    \/ \E ok \in BOOLEAN : CreateNote_VersionCreate(p, ok)
    \/ \E ok \in BOOLEAN, ok2 \in BOOLEAN : CreateNote_Invalidate(p, ok, ok2)
    \/ \E n \in 1..CoreNotes :
         p \in Writers /\ StartUpdate(p, 1, n, "B", "y", <<"1">>)
    \/ \E ok \in BOOLEAN : UpdateNote_Find(p, ok)
    \/ \E ok \in BOOLEAN : UpdateNote_Check(p, ok)
    \/ \E ok \in BOOLEAN : UpdateNote_Insert(p, ok)
    \/ \E ok \in BOOLEAN : UpdateNote_Commit(p, ok)
    \/ \E k \in 0..3 : UpdateNote_Invalidate(p, k)
    \/ \E n \in 1..CoreNotes, v \in {<<"1">>, <<"2">>} :
         p \notin Writers /\ StartDeleteVersion(p, 1, n, v)
    \/ \E ok \in BOOLEAN : DeleteNote_Find(p, ok)
    \/ \E ok \in BOOLEAN : DeleteNote_DestroyVersions(p, ok)
    \/ \E ok \in BOOLEAN : DeleteNote_DestroyNote(p, ok)
    \/ \E ok \in BOOLEAN : DeleteNote_Commit(p, ok)
    \/ \E k \in 0..3 : DeleteNote_Invalidate(p, k)
    \/ \E ok \in BOOLEAN : DeleteNote_InvalidateSearch(p, ok)

SpecDeleteVersion == Init /\ [][NextDeleteVersion]_vars

\* searches of the owner through the cache, racing with create, update and
\* revert by one client
NextSearchCache ==
  \E p \in Procs :
    \/ \E q \in {"A"} : p \notin Writers /\ StartSearch(p, 1, q)
    \/ \E ok \in BOOLEAN : SearchNotes_CacheGet(p, ok)
    \/ \E ok \in BOOLEAN : SearchNotes_FindAll(p, ok)
    \/ \E ok \in BOOLEAN : SearchNotes_CacheSet(p, ok)
    \/ p \in Writers /\ StartCreate(p, 1, "A", "x", CoreNotes)
    \/ \E ok \in BOOLEAN : CreateNote_NoteCreate(p, ok)
    \/ \E ok \in BOOLEAN : CreateNote_VersionCreate(p, ok)
    \/ \E ok \in BOOLEAN, ok2 \in BOOLEAN : CreateNote_Invalidate(p, ok, ok2)
    \/ \E n \in 1..CoreNotes :
         p \in Writers /\ StartUpdate(p, 1, n, "B", "y", <<"1">>)
    \/ \E ok \in BOOLEAN : UpdateNote_Find(p, ok)
    \/ \E ok \in BOOLEAN : UpdateNote_Check(p, ok)
    \/ \E ok \in BOOLEAN : UpdateNote_Insert(p, ok)
    \/ \E ok \in BOOLEAN : UpdateNote_Commit(p, ok)
    \/ \E k \in 0..3 : UpdateNote_Invalidate(p, k)
    \/ \E n \in 1..CoreNotes :
         p \in Writers /\ StartRevert(p, 1, n, <<"1">>)
    \/ \E ok \in BOOLEAN : RevertToVersion_Find(p, ok)
    \/ \E ok \in BOOLEAN : RevertToVersion_FindVersion(p, ok)
    \/ \E ok \in BOOLEAN : RevertToVersion_Update(p, ok)
    \/ \E ok \in BOOLEAN : RevertToVersion_Insert(p, ok)
    \/ \E ok \in BOOLEAN : RevertToVersion_Commit(p, ok)
    \/ \E k \in 0..3 : RevertToVersion_Invalidate(p, k)

SpecSearchCache == Init /\ [][NextSearchCache]_vars

\* concurrent mutations of one owner under fair scheduling: the event loop
\* resumes every handler whose awaited statement has settled, and a statement
\* that waits for a row lock settles when the lock is granted or when the
\* store gives the wait up (lock wait timeout, deadlock victim) and it throws
SpecProgress ==
  /\ Init /\ [][NextContend]_vars
  /\ \A p \in Procs : WF_vars(MutationStep(p))

\* reads of a note, its version list and its owner's collection through a
\* cache whose calls all succeed and whose keys do not expire, racing with
\* create and update by one client; store statements may throw
NextCoherence ==
  \E p \in Procs :
    \/ \E n \in 1..CoreNotes : p \notin Writers /\ StartGetNote(p, 1, n)
    \/ GetNoteById_CacheGet(p, TRUE)
    \/ \E ok \in BOOLEAN : GetNoteById_Find(p, ok)
    \/ GetNoteById_CacheSet(p, TRUE)
    \/ \E n \in 1..CoreNotes : p \notin Writers /\ StartGetVersions(p, 1, n)
    \/ GetNoteVersions_CacheGet(p, TRUE, TRUE)
    \/ \E ok \in BOOLEAN : GetNoteVersions_Find(p, ok)
    \/ \E ok \in BOOLEAN : GetNoteVersions_FindAll(p, ok)
    \/ GetNoteVersions_CacheSet(p, TRUE, TRUE)
    \/ p \notin Writers /\ StartGetAll(p, 1)
    \/ GetAllNotes_CacheGet(p, TRUE)
    \/ \E ok \in BOOLEAN : GetAllNotes_FindAll(p, ok)
    \/ GetAllNotes_CacheSet(p, TRUE)
    \/ p \in Writers /\ StartCreate(p, 1, "A", "x", CoreNotes)
    \/ \E ok \in BOOLEAN : CreateNote_NoteCreate(p, ok)
    \/ \E ok \in BOOLEAN : CreateNote_VersionCreate(p, ok)
    \/ CreateNote_Invalidate(p, TRUE, TRUE)
    \/ \E n \in 1..CoreNotes, v \in {<<"1">>, <<"2">>} :
         p \in Writers /\ StartUpdate(p, 1, n, "B", "y", v)
    \/ \E ok \in BOOLEAN : UpdateNote_Find(p, ok)
    \/ \E ok \in BOOLEAN : UpdateNote_Check(p, ok)
    \/ \E ok \in BOOLEAN : UpdateNote_Insert(p, ok)
    \/ \E ok \in BOOLEAN : UpdateNote_Commit(p, ok)
    \/ UpdateNote_Invalidate(p, 3)

SpecCoherence == Init /\ [][NextCoherence]_vars

\* the clients of one owner create notes; client 1 sends update and
\* softDelete, the others revert and resolveConflict, for any of the notes;
\* store statements succeed
NextFrame ==
  \E p \in Procs :
    \/ StartCreate(p, 1, TitleOf(p), "x", MaxNotes)
    \/ \E n \in NoteIds : p = 1 /\ StartUpdate(p, 1, n, "C", "y", <<"1">>)
    \/ \E n \in NoteIds : p = 1 /\ StartSoftDelete(p, 1, n, <<"1">>)
    \/ \E n \in NoteIds : p # 1 /\ StartRevert(p, 1, n, <<"1">>)
    \/ \E n \in NoteIds :
         p # 1 /\ StartResolve(p, 1, n, "C", "y", <<"1">>, "merge")
    \/ StoreStep(p)

SpecFrame == Init /\ [][NextFrame]_vars

Mutations == {"update", "softDelete", "revert", "resolve"}

\* the committed NoteVersion rows of note n
Rows(n) == {versions[i] : i \in {j \in DOMAIN versions : versions[j].noteId = n}}

RowVersions(n) == {r.version : r \in Rows(n)}

\* request p receives its response in this step
Answered(p) == resp[p].status = 0 /\ resp'[p].status # 0

\* request p takes this step
Moves(p) == req'[p] # req[p]

\* p and q are updates of the same note that both arrived while the note was
\* at the version both expect, both have been answered without a storage
\* failure, and no other client has issued a request
Racing(p, q) ==
  /\ p # q
  /\ req[p].op = "update" /\ req[q].op = "update"
  /\ req[p].pc = "done" /\ req[q].pc = "done"
  /\ req[p].id = req[q].id
  /\ req[p].arrivalVersion >= 1
  /\ req[p].arrivalVersion = req[q].arrivalVersion
  /\ ParseInt(req[p].ver) = req[p].arrivalVersion
  /\ ParseInt(req[q].ver) = req[q].arrivalVersion
  /\ resp[p].status \notin {400, 500} /\ resp[q].status \notin {400, 500}
  /\ \A r \in Procs \ {p, q} : req[r] = IdleReq

\* C1: of two concurrent updates of a note at version v that both submit
\* expectedVersion = v, exactly one succeeds (the note is at v+1 with the
\* winner's title and content) and the other is answered 409; never both
\* succeed, never both fail.
C1_LostUpdatePrevention ==
  \A p, q \in Procs :
    Racing(p, q) =>
      \E w \in {p, q} :
        LET l == IF w = p THEN q ELSE p
            n == req[w].id
        IN /\ resp[w].status = 200
           /\ resp[l].status = 409
           /\ resp[l].serverVersion = req[w].arrivalVersion + 1
           /\ notes[n].exists
           /\ notes[n].version = req[w].arrivalVersion + 1
           /\ notes[n].title = req[w].title
           /\ notes[n].content = req[w].content

C1_Witness ==
  \E p, q \in Procs :
    /\ Racing(p, q)
    /\ resp[p].status = 200
    /\ resp[q].status = 409
    /\ req[p].arrivalVersion = 2

\* C2: for every note that exists, the version numbers of its NoteVersion
\* rows are exactly 1..Note.version.
C2_GapFreeHistory ==
  \A n \in NoteIds :
    notes[n].exists => RowVersions(n) = 1..notes[n].version

\* C3: a created note has version 1; a committed update, softDelete, revert
\* or resolveConflict takes the version from v to v+1; a request answered 404
\* or 409 leaves every note as it was; no step lowers a version.
C3_VersionStepping ==
  [][ /\ \A n \in NoteIds :
           /\ (~notes[n].exists /\ notes'[n].exists) => notes'[n].version = 1
           /\ (notes[n].exists /\ notes'[n].exists) =>
                notes'[n].version \in {notes[n].version, notes[n].version + 1}
      /\ \A p \in Procs :
           /\ (req[p].op \in Mutations /\ req[p].pc = "commit"
               /\ req'[p].pc = "invalidate") =>
                /\ notes[req[p].id].exists
                /\ notes'[req[p].id].exists
                /\ notes'[req[p].id].version = notes[req[p].id].version + 1
           /\ (Answered(p) /\ resp'[p].status \in {404, 409}) =>
                notes' = notes
    ]_vars

C3_Witness ==
  \E p \in Procs :
    /\ req[p].op = "revert"
    /\ resp[p].status = 200
    /\ notes[req[p].id].exists
    /\ notes[req[p].id].version = 3

\* C4: for every existing note there is a NoteVersion row with the note's
\* version, and it carries the note's title and content.
C4_LatestSnapshot ==
  \A n \in NoteIds :
    notes[n].exists =>
      \E r \in Rows(n) : /\ r.version = notes[n].version
                         /\ r.title = notes[n].title
                         /\ r.content = notes[n].content

\* C5: an update whose expectedVersion differs from the stored version
\* (smaller or larger) writes nothing, leaves the Note row unchanged and is
\* answered 409 (500 if the store fails during the check); an update whose
\* expectedVersion equals the stored version is never answered 409.
C5_UpdateConflictAborts ==
  [][ \A p \in Procs :
        (At(p, "update", "locked") /\ Moves(p)) =>
          IF ParseInt(req[p].ver) # notes[req[p].id].version
          THEN /\ resp'[p].status \in {409, 500}
               /\ req'[p].pc = "done"
               /\ tx'[p] = NoTx
               /\ notes' = notes
               /\ versions' = versions
          ELSE resp'[p].status # 409
    ]_vars

C5_Witness ==
  \E p \in Procs :
    /\ req[p].op = "update"
    /\ resp[p].status = 409
    /\ resp[p].clientVersion > resp[p].serverVersion
    /\ notes[req[p].id].version = resp[p].serverVersion
    /\ ~notes[req[p].id].isDeleted

\* C6: the 409 of update carries clientVersion = the submitted version,
\* serverVersion, title and content of the stored Note, and lastModifiedBy =
\* createdBy of the NoteVersion row of the stored version (null if the note
\* has no such row).
C6_ConflictPayload ==
  [][ \A p \in Procs :
        (req[p].op = "update" /\ Answered(p) /\ resp'[p].status = 409) =>
          LET note == notes[req[p].id]
          IN /\ resp'[p].clientVersion = ParseInt(req[p].ver)
             /\ resp'[p].clientVersion # note.version
             /\ resp'[p].serverVersion = note.version
             /\ resp'[p].title = note.title
             /\ resp'[p].content = note.content
             /\ \A r \in Rows(req[p].id) :
                  r.version = note.version => resp'[p].lastModifiedBy = r.createdBy
             /\ (note.version \notin RowVersions(req[p].id)) =>
                  resp'[p].lastModifiedBy = 0
    ]_vars

C6_Witness ==
  \E p \in Procs :
    /\ req[p].op = "update"
    /\ resp[p].status = 409
    /\ resp[p].clientVersion = 1
    /\ resp[p].serverVersion = 2
    /\ resp[p].lastModifiedBy = 1
    /\ resp[p].title = notes[req[p].id].title

\* C7: an update, softDelete, revert or resolveConflict that ends in a storage
\* failure leaves the Note rows and the NoteVersion rows as they were; no
\* committed state has a note at a version v+1 >= 2 without its row v+1, nor
\* a NoteVersion row ahead of its note's version.
C7_AllOrNothing ==
  /\ [][ \A p \in Procs :
           (req[p].op \in Mutations /\ Answered(p) /\ resp'[p].status = 500) =>
             (notes' = notes /\ versions' = versions /\ tx'[p] = NoTx)
       ]_vars
  /\ [](\A n \in NoteIds :
          (notes[n].exists /\ notes[n].version >= 2) =>
            notes[n].version \in RowVersions(n))
  /\ [](\A i \in DOMAIN versions :
          /\ notes[versions[i].noteId].exists
          /\ versions[i].version <= notes[versions[i].noteId].version)

C7_Witness ==
  \E p \in Procs :
    /\ req[p].op = "update"
    /\ resp[p].status = 500
    /\ notes[req[p].id].exists
    /\ ~notes[req[p].id].isDeleted
    /\ req[p].arrivalVersion = 2
    /\ notes[req[p].id].version = 2
    /\ ParseInt(req[p].ver) = 2
    /\ RowVersions(req[p].id) = {1, 2}

\* C8: create writes the Note row and its version-1 row as one unit: there is
\* never a note without a NoteVersion row.
C8_CreateAtomic ==
  \A n \in NoteIds : notes[n].exists => Rows(n) # {}

\* C9: a softDelete that commits had expectedVersion = the stored version; it
\* sets isDeleted, adds 1 to the version, keeps title and content, and appends
\* one NoteVersion row (new version, createdBy = caller, the note's title and
\* content); every other row stays.
C9_SoftDeleteCommit ==
  [][ \A p \in Procs :
        (At(p, "softDelete", "commit") /\ req'[p].pc = "invalidate") =>
          LET n == req[p].id
          IN /\ notes[n].exists /\ ~notes[n].isDeleted
             /\ ParseInt(req[p].ver) = notes[n].version
             /\ notes' = [notes EXCEPT ![n].isDeleted = TRUE,
                                       ![n].version = notes[n].version + 1]
             /\ versions' = Append(versions,
                              VersionRow(n, notes[n].title, notes[n].content,
                                         notes[n].version + 1, req[p].user, 0))
    ]_vars

C9_Witness ==
  \E p \in Procs :
    /\ req[p].op = "softDelete"
    /\ resp[p].status = 200
    /\ notes[req[p].id].isDeleted
    /\ notes[req[p].id].version = 3
    /\ \E r \in Rows(req[p].id) : r.version = 3 /\ r.title = notes[req[p].id].title

\* C10: a softDelete whose expectedVersion differs from the stored version is
\* answered 409 with clientVersion and serverVersion; the note, the
\* NoteVersion rows and every cache key stay as they were.
C10_SoftDeleteConflict ==
  [][ \A p \in Procs :
        (At(p, "softDelete", "locked") /\ Moves(p)
         /\ ParseInt(req[p].ver) # notes[req[p].id].version) =>
          /\ resp'[p].status = 409
          /\ resp'[p].clientVersion = ParseInt(req[p].ver)
          /\ resp'[p].serverVersion = notes[req[p].id].version
          /\ req'[p].pc = "done"
          /\ notes' = notes
          /\ versions' = versions
          /\ cache' = cache
    ]_vars

C10_Witness ==
  \E p \in Procs :
    /\ req[p].op = "softDelete"
    /\ resp[p].status = 409
    /\ notes[req[p].id].exists
    /\ ~notes[req[p].id].isDeleted
    /\ cache.note[req[p].id].exists
    /\ cache.versions[req[p].id].hit
    /\ cache.userNotes[req[p].user].hit
    /\ cache.search[req[p].user]["A"].hit

C12_RevertProvenance ==
  [][ \A p \in Procs :
        (At(p, "revert", "commit") /\ req'[p].pc = "invalidate") =>
          LET n == req[p].id
              c == notes[n].version
              t == ParseInt(req[p].ver)
          IN /\ notes[n].exists /\ ~notes[n].isDeleted
             /\ \E r \in Rows(n) :
                  /\ r.version = t
                  /\ notes' = [notes EXCEPT ![n].title = r.title,
                                            ![n].content = r.content,
                                            ![n].version = c + 1]
                  /\ versions' = Append(versions,
                                   VersionRow(n, r.title, r.content, c + 1,
                                              req[p].user, t))
    ]_vars

\* a note created as "A" and updated to "B" has been reverted to version 1
C12_Witness ==
  \E p \in Procs :
    /\ req[p].op = "revert" /\ resp[p].status = 200
    /\ ParseInt(req[p].ver) = 1
    /\ notes[req[p].id].version = 3
    /\ notes[req[p].id].title = "A"
    /\ \E r \in Rows(req[p].id) : r.version = 2 /\ r.title = "B"
    /\ \E r \in Rows(req[p].id) :
         r.version = 3 /\ r.title = "A" /\ r.revertedFrom = 1

\* C13: a revert whose target version has no NoteVersion row of the note
\* (for instance a version above the current one) ends at the lookup: it is
\* answered 404 (500 when the lookup itself fails), and the Note rows, the
\* NoteVersion rows and every cache key stay as they were.
C13_RevertMissingTarget ==
  [][ \A p \in Procs :
        (At(p, "revert", "locked") /\ Moves(p)
         /\ ParseInt(req[p].ver) \notin RowVersions(req[p].id)) =>
          /\ resp'[p].status \in {404, 500}
          /\ req'[p].pc = "done"
          /\ tx'[p] = NoTx
          /\ notes' = notes
          /\ versions' = versions
          /\ cache' = cache
    ]_vars

\* a revert to version 2 of a note at version 1 was answered 404 while the
\* note's keys were cached
C13_Witness ==
  \E p \in Procs :
    /\ req[p].op = "revert" /\ resp[p].status = 404
    /\ req[p].arrivalVersion = 1
    /\ ParseInt(req[p].ver) = 2
    /\ notes[req[p].id].exists /\ ~notes[req[p].id].isDeleted
    /\ notes[req[p].id].version = 1
    /\ RowVersions(req[p].id) = {1}
    /\ cache.note[req[p].id].exists
    /\ cache.versions[req[p].id].hit
    /\ cache.userNotes[req[p].user].hit

\* p is a revert and q an update of the same note; both arrived while the
\* note was active at version v, the update expects v and the revert names a
\* version up to v that had a row when the revert arrived; both have been
\* answered without a storage failure and no other client has issued a request
RevertRacesUpdate(p, q) ==
  /\ p # q
  /\ req[p].op = "revert" /\ req[q].op = "update"
  /\ req[p].pc = "done" /\ req[q].pc = "done"
  /\ req[p].id = req[q].id
  /\ req[p].arrivalVersion >= 1
  /\ req[p].arrivalVersion = req[q].arrivalVersion
  /\ ParseInt(req[q].ver) = req[q].arrivalVersion
  /\ ParseInt(req[p].ver) <= req[p].arrivalVersion
  /\ ParseInt(req[p].ver) \in req[p].arrivalRows
  /\ resp[p].status \notin {400, 500} /\ resp[q].status \notin {400, 500}
  /\ \A r \in Procs \ {p, q} : req[r] = IdleReq

\* C14: a revert is never answered 409, and it is answered 404 only when the
\* note is absent or soft-deleted or the target version has no row.  When a
\* revert and an update expecting v race on a note at v, the revert succeeds
\* in both orders: to v+2 after the update has committed v+1, or to v+1, and
\* then the update is answered 409.
C14_RevertNeverConflicts ==
  /\ [](\A p \in Procs : req[p].op = "revert" => resp[p].status # 409)
  /\ [][ \A p \in Procs :
           (req[p].op = "revert" /\ Answered(p) /\ resp'[p].status = 404) =>
             \/ /\ req[p].pc = "find"
                /\ ~FindNote(req[p].id, req[p].user, TRUE).exists
             \/ /\ req[p].pc = "locked"
                /\ ParseInt(req[p].ver) \notin RowVersions(req[p].id)
       ]_vars
  /\ [](\A p, q \in Procs :
          RevertRacesUpdate(p, q) =>
            LET n == req[p].id
                v == req[p].arrivalVersion
                t == ParseInt(req[p].ver)
            IN /\ resp[p].status = 200
               /\ \/ /\ resp[q].status = 200
                     /\ resp[p].version = v + 2
                     /\ notes[n].version = v + 2
                     /\ \E r \in Rows(n) : r.version = v + 1 /\ r.revertedFrom = 0
                     /\ \E r \in Rows(n) : r.version = v + 2 /\ r.revertedFrom = t
                  \/ /\ resp[q].status = 409
                     /\ resp[p].version = v + 1
                     /\ notes[n].version = v + 1
                     /\ \A r \in Rows(n) : r.version = v + 1 => r.revertedFrom = t)

\* the update committed first and the revert, which arrived at version 1 as
\* well, took the note from 2 to 3
C14_Witness ==
  \E p, q \in Procs :
    /\ RevertRacesUpdate(p, q)
    /\ req[p].arrivalVersion = 1
    /\ resp[p].status = 200 /\ resp[q].status = 200
    /\ notes[req[p].id].version = 3

\* C15: a resolveConflict whose serverVersion differs from the stored
\* version of the note is answered 409 with currentVersion = the stored
\* version and attemptedResolutionVersion = the submitted one, and writes
\* nothing: the Note rows and the NoteVersion rows stay as they were.
C15_ResolveSecondOrderConflict ==
  [][ \A p \in Procs :
        (At(p, "resolve", "locked") /\ Moves(p)
         /\ ParseInt(req[p].ver) # notes[req[p].id].version) =>
          /\ resp'[p].status = 409
          /\ resp'[p].currentVersion = notes[req[p].id].version
          /\ resp'[p].attemptedResolutionVersion = ParseInt(req[p].ver)
          /\ req'[p].pc = "done"
          /\ tx'[p] = NoTx
          /\ notes' = notes
          /\ versions' = versions
    ]_vars

\* a resolution against version 1 of a note that has moved to version 2
C15_Witness ==
  \E p \in Procs :
    /\ req[p].op = "resolve" /\ resp[p].status = 409
    /\ resp[p].currentVersion = 2
    /\ resp[p].attemptedResolutionVersion = 1
    /\ notes[req[p].id].exists /\ ~notes[req[p].id].isDeleted
    /\ notes[req[p].id].version = 2
    /\ RowVersions(req[p].id) = {1, 2}

\* C16: a resolveConflict whose serverVersion equals the stored version s
\* commits, under every declared strategy, the submitted title and content
\* with Note.version = s+1 and one new NoteVersion row (version s+1,
\* createdBy = caller, the submitted title and content), in one step.
C16_ResolveCommit ==
  [][ \A p \in Procs :
        (At(p, "resolve", "commit") /\ req'[p].pc = "invalidate") =>
          LET n == req[p].id
              s == notes[n].version
          IN /\ notes[n].exists /\ ~notes[n].isDeleted
             /\ ParseInt(req[p].ver) = s
             /\ notes' = [notes EXCEPT ![n].title = req[p].title,
                                       ![n].content = req[p].content,
                                       ![n].version = s + 1]
             /\ versions' = Append(versions,
                              VersionRow(n, req[p].title, req[p].content,
                                         s + 1, req[p].user, 0))
    ]_vars

\* a 'server-wins' resolution has replaced the server's title "A" by the
\* submitted title "B"
C16_Witness ==
  \E p \in Procs :
    /\ req[p].op = "resolve" /\ resp[p].status = 200
    /\ req[p].strategy = "server-wins"
    /\ req[p].title = "B"
    /\ notes[req[p].id].title = "B" /\ notes[req[p].id].content = "y"
    /\ notes[req[p].id].version = 2
    /\ \E r \in Rows(req[p].id) : r.version = 1 /\ r.title = "A"
    /\ \E r \in Rows(req[p].id) :
         r.version = 2 /\ r.title = "B" /\ r.content = "y"

\* C17: the NoteVersion row written by a successful resolveConflict records
\* createdBy = caller, the declared resolutionStrategy and the version that
\* was resolved from.
C17_ResolveMetadata ==
  \A p \in Procs :
    (req[p].op = "resolve" /\ resp[p].status = 200) =>
      \E r \in Rows(req[p].id) :
        /\ r.version = resp[p].version
        /\ r.createdBy = req[p].user
        /\ "resolutionStrategy" \in DOMAIN r
        /\ r.resolutionStrategy = req[p].strategy
        /\ \/ "resolvedFrom" \in DOMAIN r /\ r.resolvedFrom = ParseInt(req[p].ver)
           \/ r.revertedFrom = ParseInt(req[p].ver)

\* p is a resolveConflict that follows the protocol: the client's previous
\* exchange was an update of the same note answered 409, and the resolution
\* submits the serverVersion that the 409 reported
ResolvesReportedConflict(p) ==
  /\ req[p].op = "resolve"
  /\ req[p].conflictVersion >= 1
  /\ ParseInt(req[p].ver) = req[p].conflictVersion

\* what holds of a resolution that follows the protocol, whatever happened
\* between the 409 and the resolution: it commits exactly when the note is
\* still active at the reported version s, taking it to s+1 with the
\* submitted title and content, and it is answered 409 exactly when the note
\* is active at another version
ResolveAfterConflictStep(p) ==
  LET n == req[p].id
      s == req[p].conflictVersion
      active == notes[n].exists /\ ~notes[n].isDeleted
  IN /\ (req[p].pc = "commit" /\ req'[p].pc = "invalidate") =>
          /\ active /\ notes[n].version = s
          /\ notes'[n].version = s + 1
          /\ notes'[n].title = req[p].title
          /\ notes'[n].content = req[p].content
     /\ (req[p].pc = "locked" /\ active /\ notes[n].version = s) =>
          (req'[p].pc = "insert" \/ resp'[p].status = 500)
     /\ (Answered(p) /\ resp'[p].status = 409) =>
          /\ active /\ notes[n].version # s
          /\ resp'[p].currentVersion = notes[n].version
          /\ resp'[p].attemptedResolutionVersion = s
          /\ notes' = notes /\ versions' = versions
     /\ (Answered(p) /\ resp'[p].status = 200) => req[p].pc = "invalidateSearch"

\* C18 as stated: after an update answered 409 with serverVersion = s, a
\* resolveConflict submitting s succeeds if and only if no other mutation of
\* the note was accepted since the 409 (the note is still active at s);
\* otherwise it is answered with the second-order 409.
C18_ResolveAfterConflict ==
  [][ \A p \in Procs :
        (ResolvesReportedConflict(p) /\ Moves(p)) =>
          /\ ResolveAfterConflictStep(p)
          /\ Answered(p) => resp'[p].status \in {200, 409, 500}
    ]_vars

\* C18 amended: after an update answered 409 with serverVersion = s, a
\* resolveConflict submitting s succeeds if and only if the note is still
\* active at s; it is answered with the second-order 409 when an update,
\* revert or resolveConflict was accepted in between, and with 404 when the
\* mutation accepted in between was a softDelete or a permanent delete.
C18_ResolveAfterConflictAmended ==
  [][ \A p \in Procs :
        (ResolvesReportedConflict(p) /\ Moves(p)) =>
          /\ ResolveAfterConflictStep(p)
          /\ Answered(p) => resp'[p].status \in {200, 404, 409, 500}
          /\ (Answered(p) /\ resp'[p].status = 404) =>
               /\ ~(notes[req[p].id].exists /\ ~notes[req[p].id].isDeleted)
               /\ notes' = notes /\ versions' = versions
    ]_vars

\* an update expecting 1 was answered 409 with serverVersion 2, and the
\* client's resolution against 2 has taken the note to version 3
C18_Witness ==
  \E p \in Procs :
    /\ ResolvesReportedConflict(p)
    /\ req[p].conflictVersion = 2
    /\ resp[p].status = 200
    /\ notes[req[p].id].version = 3
    /\ notes[req[p].id].title = req[p].title
    /\ RowVersions(req[p].id) = {1, 2, 3}

\* read p, which arrived after the softDelete or the permanent delete of the
\* notes in its record had been answered, is answered in this step with one
\* of those notes: get-by-id returns it, list or search contain it, the
\* version list of a soft-deleted note is not the stored one, or the version
\* list of a permanently deleted note is returned
ReturnsDeleted(p) ==
  /\ Answered(p)
  /\ LET n == req[p].id
         former == req[p].arrivalDeleted \cup req[p].arrivalGone
     IN \/ /\ req[p].op = "getNote" /\ n \in former
           /\ resp'[p].status = 200
        \/ /\ req[p].op \in {"getAll", "search"}
           /\ resp'[p].status = 200
           /\ \E i \in DOMAIN resp'[p].rows : resp'[p].rows[i].id \in former
        \/ /\ req[p].op = "getVersions" /\ n \in req[p].arrivalDeleted
           /\ notes[n].exists
           /\ ~(resp'[p].status = 500
                \/ (resp'[p].status = 200 /\ resp'[p].rows = VersionList(n)))
        \/ /\ req[p].op = "getVersions" /\ n \in req[p].arrivalGone
           /\ resp'[p].status = 200

ShowsUpdate(p, e) ==
  \/ /\ req[p].op = "getNote" /\ req[p].id = e[1]
     /\ resp'[p].version >= e[2]
  \/ /\ req[p].op = "getVersions" /\ req[p].id = e[1]
     /\ \E i \in DOMAIN resp'[p].rows : resp'[p].rows[i].version = e[2]
  \/ /\ req[p].op = "getAll"
     /\ \E i \in DOMAIN resp'[p].rows :
          /\ resp'[p].rows[i].id = e[1]
          /\ resp'[p].rows[i].version >= e[2]

\* read p, answered 200 in this step, concerns note e[1]
ReadsNote(p, e) ==
  /\ Answered(p) /\ resp'[p].status = 200
  /\ \/ req[p].op \in {"getNote", "getVersions"} /\ req[p].id = e[1]
     \/ req[p].op = "getAll" /\ req[p].user = notes[e[1]].userId

C22_SearchInvalidated ==
  [][ \A p \in Procs :
        (/\ Answered(p)
         /\ \/ req[p].op = "create" /\ resp'[p].status = 201
            \/ req[p].op \in {"softDelete", "delete"} /\ resp'[p].status = 200)
        => \A q \in Queries :
             LET entry == cache'.search[req[p].user][q]
             IN entry.hit => entry.rows = NoteList(1, req[p].user, q) ]_vars

\* mutation p has written the store and is issuing its cache invalidations
PostCommit(p) ==
  /\ req[p].op \in Mutations \cup {"create", "delete"}
  /\ req[p].pc \in {"invalidate", "invalidateSearch"}

\* the store holds what mutation p wrote
Durable(p) ==
  LET n == req[p].id
  IN IF req[p].op = "delete" THEN ~notes[n].exists /\ Rows(n) = {}
     ELSE /\ notes[n] = req[p].note
          /\ \E r \in Rows(n) : r.version = req[p].note.version

\* C23: whatever the cache calls of a request do, fail or not, the request
\* goes on as if they had succeeded.  The invalidations of a mutation run on
\* its committed state with no transaction open; they leave the Note and
\* NoteVersion rows alone and end in the success response (201 for create,
\* 200 otherwise), never in an error.  A read's cache lookup either serves
\* the cached entry or goes on to the store, never answers an error; a read
\* that computed its answer from the store returns it with 200 whether or not
\* the entry could be cached.
C23_CacheFailuresSwallowed ==
  [][ \A p \in Procs :
        /\ (PostCommit(p) /\ Moves(p)) =>
             /\ ~tx[p].active /\ \A n \in NoteIds : lock[n] # p
             /\ Durable(p)
             /\ notes' = notes /\ versions' = versions
             /\ \/ /\ req'[p].pc = "invalidateSearch" /\ req[p].pc = "invalidate"
                   /\ resp'[p].status = 0
                \/ /\ req'[p].pc = "done"
                   /\ resp'[p].status = IF req[p].op = "create" THEN 201 ELSE 200
        /\ (req[p].op \in Reads /\ req[p].pc = "cacheGet" /\ Moves(p)) =>
             \/ req'[p].pc \in {"find", "findAll"} /\ resp'[p].status = 0
             \/ /\ req'[p].pc = "done" /\ resp'[p].status = 200
                /\ \/ req[p].op = "getNote" /\ cache.note[req[p].id].exists
                      /\ resp'[p] = NoteResp(200, cache.note[req[p].id])
                   \/ req[p].op = "getVersions" /\ cache.versions[req[p].id].hit
                      /\ resp'[p].rows = cache.versions[req[p].id].rows
                   \/ req[p].op = "getAll" /\ cache.userNotes[req[p].user].hit
                      /\ resp'[p].rows = cache.userNotes[req[p].user].rows
                   \/ req[p].op = "search"
                      /\ cache.search[req[p].user][req[p].query].hit
        /\ (req[p].op \in Reads /\ req[p].pc = "cacheSet" /\ Moves(p)) =>
             /\ req'[p].pc = "done" /\ resp'[p].status = 200
             /\ resp'[p].rows = req[p].rows
             /\ req[p].op = "getNote" => resp'[p] = NoteResp(200, req[p].note)
    ]_vars

\* an update of a cached note was answered 200 and its rows are in the store
\* although the DELs of its invalidation failed: the entries of the note, of
\* its version list and of the collection, written by reads that ended
\* before the update was answered, are still cached at version 1
C23_Witness ==
  \E p, w \in Procs :
    /\ req[w].op = "update" /\ req[w].pc = "done" /\ req[w].arrivalCached
    /\ resp[w].status = 200 /\ resp[w].version = 2 /\ ~req[w].settled
    /\ notes[req[w].id].version = 2 /\ 2 \in RowVersions(req[w].id)
    /\ req[p].op = "getVersions" /\ req[p].pc = "done" /\ resp[p].status = 200
    /\ req[p].arrivalUpdated = {}
    /\ cache.note[req[w].id].exists /\ cache.note[req[w].id].version = 1
    /\ cache.versions[req[w].id].hit
    /\ \A i \in DOMAIN cache.versions[req[w].id].rows :
         cache.versions[req[w].id].rows[i].version = 1
    /\ cache.userNotes[1].hit
    /\ \A i \in DOMAIN cache.userNotes[1].rows :
         cache.userNotes[1].rows[i].version = 1

\* the last invalidation of mutation p, after which the response is sent
LastInvalidation(p) ==
  IF req[p].op \in {"softDelete", "delete", "resolve"}
  THEN req[p].pc = "invalidateSearch" ELSE req[p].pc = "invalidate"

\* C24: a mutation touches the cache only between its commit and its
\* response.  A step of a mutation that is not one of its post-commit
\* invalidations leaves the cache as it is, so a request that is rejected or
\* rolled back (404, 409, 500) invalidates nothing; the invalidations start
\* only from a successful commit (for createNote, from the second insert),
\* when the transaction is closed and its rows are in the store; and the
\* success response is sent by the step that finishes the last invalidation.
C24_InvalidateAfterCommit ==
  [][ \A p \in Procs :
        (req[p].op \in Mutations \cup {"create", "delete"} /\ Moves(p)) =>
          /\ ~PostCommit(p) => cache' = cache
          /\ PostCommit(p) => ~tx[p].active /\ Durable(p)
          /\ (~PostCommit(p) /\ PostCommit(p)') =>
               /\ req[p].pc = IF req[p].op = "create" THEN "versionCreate"
                              ELSE "commit"
               /\ req'[p].pc = "invalidate"
               /\ ~tx'[p].active /\ Durable(p)'
          /\ (Answered(p) /\ resp'[p].status \in {200, 201}) =>
               PostCommit(p) /\ LastInvalidation(p)
          /\ (Answered(p) /\ resp'[p].status \notin {200, 201}) =>
               /\ ~PostCommit(p)
               /\ notes' = notes /\ versions' = versions
    ]_vars

\* an update has committed version 2 and has not yet invalidated: the note is
\* still cached at version 1 and no response has been sent
C24_Witness ==
  \E w \in Procs :
    /\ At(w, "update", "invalidate") /\ resp[w].status = 0
    /\ ~tx[w].active
    /\ notes[req[w].id].version = 2 /\ 2 \in RowVersions(req[w].id)
    /\ cache.note[req[w].id].exists /\ cache.note[req[w].id].version = 1
    /\ cache.versions[req[w].id].hit /\ cache.userNotes[1].hit

\* C25: an update, softDelete or resolveConflict is answered 409 only by its
\* version check, made while it holds the note's row lock, and only when the
\* submitted version differs from the stored one; a request that gives up
\* waiting for the lock, or whose statement or commit fails, is answered 500,
\* with nothing of it in the store; and 200 is sent only after the commit.
C25_ConflictNotFailure ==
  [][ \A p \in Procs :
        (req[p].op \in {"update", "softDelete", "resolve"} /\ Moves(p)) =>
          LET n == req[p].id
          IN /\ (Answered(p) /\ resp'[p].status = 409) =>
                  /\ req[p].pc = "locked" /\ lock[n] = p
                  /\ notes[n].exists /\ ~notes[n].isDeleted
                  /\ ParseInt(req[p].ver) # notes[n].version
                  /\ notes' = notes /\ versions' = versions
             /\ (req[p].pc = "find" /\ notes[n].exists /\ lock[n] \notin {0, p}) =>
                  resp'[p].status = 500
             /\ (req[p].pc = "locked" /\ ParseInt(req[p].ver) = notes[n].version) =>
                  \/ resp'[p].status = 500
                  \/ req'[p].pc = "insert" /\ resp'[p].status = 0
             /\ (req[p].pc \in {"insert", "commit"}) =>
                  \/ resp'[p].status = 500
                  \/ resp'[p].status = 0
                     /\ req'[p].pc = IF req[p].pc = "insert" THEN "commit"
                                     ELSE "invalidate"
             /\ (Answered(p) /\ resp'[p].status = 500) =>
                  /\ req[p].pc \in {"find", "locked", "insert", "commit"}
                  /\ notes' = notes /\ versions' = versions
                  /\ ~tx'[p].active /\ lock'[n] # p
             /\ (Answered(p) /\ resp'[p].status = 200) =>
                  PostCommit(p) /\ ~tx[p].active
    ]_vars

\* a softDelete that submitted the stored version was answered 500 while
\* another request held the note's row lock
C25_Witness ==
  \E p, q \in Procs :
    /\ p # q
    /\ req[p].op = "softDelete" /\ req[p].pc = "done" /\ resp[p].status = 500
    /\ req[q].op = "update" /\ req[q].pc = "locked" /\ req[q].id = req[p].id
    /\ lock[req[p].id] = q
    /\ notes[req[p].id].exists
    /\ ParseInt(req[p].ver) = notes[req[p].id].version
    /\ req[p].arrivalVersion = notes[req[p].id].version

\* request p holds the row lock of note n: a version-checking mutation from
\* its locking read to the end of its transaction, a permanent delete from
\* its DELETE of the Note row if the row was still there
HoldsLock(p, n) ==
  /\ req[p].id = n
  /\ \/ /\ req[p].op \in Mutations
        /\ req[p].pc \in {"locked", "update", "insert", "commit"}
     \/ At(p, "delete", "commit") /\ lock[n] = p

\* C26: at most one mutation holds the row lock of a note at a time, and
\* while a mutation holds it, from its locking read of the Note row to its
\* commit, the stored Note row and its NoteVersion rows are the ones it read:
\* no step of another request, a permanent delete included, changes them.
C26_MutualExclusion ==
  /\ [](\A n \in NoteIds :
          /\ Cardinality({p \in Procs : HoldsLock(p, n)}) <= 1
          /\ \A p \in Procs : HoldsLock(p, n) =>
               /\ lock[n] = p /\ notes[n].exists
               /\ req[p].op \in Mutations =>
                    notes[n].version = req[p].arrivalVersion
                    \/ notes[n].version + 1 = req[p].note.version
                    \/ notes[n] = req[p].note)
  /\ [][ \A n \in NoteIds : \A p \in Procs :
           (HoldsLock(p, n) /\ ~Moves(p)) =>
             /\ notes'[n] = notes[n] /\ Rows(n)' = Rows(n)
             /\ lock'[n] = p ]_vars

\* an update holds the lock of a note while a permanent delete of the same
\* note, which has found the note and deleted its versions, waits to delete
\* the row
C26_Witness ==
  \E p, q \in Procs :
    /\ At(p, "update", "commit") /\ HoldsLock(p, req[p].id)
    /\ At(q, "delete", "destroyNote") /\ req[q].id = req[p].id
    /\ tx[q].delVersions = req[p].id
    /\ notes[req[p].id].version = 1 /\ req[p].note.version = 2

\* C27: an update by a user who is not the owner of the note but holds a
\* write share on it goes through the expected-version check like the
\* owner's: unless the store fails it reaches the locked check, where the
\* current version is accepted (version + 1, a NoteVersion row created by
\* that user) and any other version is answered 409.
C27_WriteShareUpdate ==
  [][ \A p \in Procs :
        LET n == req[p].id
            u == req[p].user
        IN (/\ req[p].op = "update" /\ Moves(p)
            /\ notes[n].exists /\ ~notes[n].isDeleted
            /\ u # notes[n].userId /\ HasWriteShare(n, u)) =>
             /\ req[p].pc = "find" =>
                  \/ resp'[p].status = 500
                  \/ req'[p].pc = "locked" /\ resp'[p].status = 0
             /\ Answered(p) =>
                  \/ resp'[p].status = 500
                  \/ /\ resp'[p].status = 409
                     /\ ParseInt(req[p].ver) # notes[n].version
                  \/ /\ resp'[p].status = 200
                     /\ ParseInt(req[p].ver) + 1 = notes[n].version
                     /\ \E r \in Rows(n) : /\ r.version = notes[n].version
                                           /\ r.createdBy = u
    ]_vars

\* the notes whose permanent delete commits in this step
DeleteCommits ==
  {n \in NoteIds :
     \E p \in Procs : /\ At(p, "delete", "commit") /\ req[p].id = n
                      /\ req'[p].pc = "invalidate"}

\* C28: the NoteVersions table only grows at its end: every step leaves the
\* existing rows as they are, field by field and in their order, and at most
\* appends rows, except the commit of a permanent delete, which removes the
\* rows of its note and no others.
C28_AppendOnly ==
  [][ LET kept == SelectSeq(versions, LAMBDA r : r.noteId \notin DeleteCommits)
      IN  /\ Len(kept) <= Len(versions')
          /\ SubSeq(versions', 1, Len(kept)) = kept ]_vars

\* a note with three rows: version 1 from create, version 2 from an update
\* and version 3 from a revert to version 1, the first two unchanged
C28_Witness ==
  /\ Len(versions) = 3
  /\ \A i \in 1..3 : versions[i].version = i /\ versions[i].noteId = 1
  /\ versions[3].revertedFrom = 1
  /\ versions[3].title = versions[1].title
  /\ versions[2].title # versions[1].title
  /\ notes[1].version = 3

\* every entry of the note, version-list and collection keys holds what the
\* store holds
CacheFresh ==
  /\ \A n \in NoteIds :
       /\ cache.note[n].exists => cache.note[n] = notes[n]
       /\ cache.versions[n].hit => cache.versions[n].rows = VersionList(n)
  /\ \A u \in Users :
       cache.userNotes[u].hit => cache.userNotes[u].rows = NoteList(1, u, "")

\* a read answered 200 in this step returns what the store holds
ReadsStored ==
  \A p \in Procs :
    Answered(p) /\ resp'[p].status = 200 =>
      /\ req[p].op = "getNote" => resp'[p] = NoteResp(200, notes[req[p].id])
      /\ req[p].op = "getVersions" => resp'[p].rows = VersionList(req[p].id)
      /\ req[p].op = "getAll" => resp'[p].rows = NoteList(1, req[p].user, "")

\* C29: once the Notes and NoteVersions tables stop changing, from some point
\* on every cached note, version list and collection equals the stored state
\* and every read of them answered 200 returns the stored state, whatever the
\* invalidations did and whatever snapshots readers wrote back.
C29_TTLBackstop ==
  <>[][notes' = notes /\ versions' = versions]_vars
    => (<>[]CacheFresh /\ <>[][ReadsStored]_vars)

\* an update to version 2 arrived with the note cached and its invalidation
\* left entries behind; no key is left all the same, and a read of the note
\* that arrived after the update returns version 2
C29_Witness ==
  \E w \in Procs, p \in Procs, n \in NoteIds :
    /\ req[w].op = "update" /\ req[w].pc = "done" /\ resp[w].status = 200
    /\ req[w].id = n /\ notes[n].version = 2
    /\ req[w].arrivalCached /\ ~req[w].settled
    /\ cache = EmptyCache
    /\ req[p].op = "getNote" /\ req[p].pc = "done" /\ req[p].id = n
    /\ <<n, 2>> \in req[p].arrivalUpdated \ req[p].arrivalSettled
    /\ resp[p].status = 200 /\ resp[p].version = 2

\* note 2 and its version rows are those of note 1
SameRows ==
  /\ notes[Twin(1)] = IF notes[1].exists THEN [notes[1] EXCEPT !.id = Twin(1)]
                      ELSE NoNote
  /\ LET s == SelectSeq(versions, LAMBDA r : r.noteId = 1)
     IN  SelectSeq(versions, LAMBDA r : r.noteId = Twin(1))
           = [i \in DOMAIN s |-> [s[i] EXCEPT !.noteId = Twin(1)]]

\* C30: two runs from the same rows that receive the same create, update,
\* softDelete, revert and resolveConflict requests, one with any cached
\* snapshots of its note (none, current or earlier) and one with none, give
\* the same answer to each request and leave the same Note and NoteVersion
\* rows.
C30_CacheIndependent ==
  req[1].pc = "done" /\ req[2].pc = "done" =>
    /\ req[2].op = req[1].op
    /\ resp[2] = resp[1]
    /\ SameRows

\* both runs answered an update with success while the key of note 1 held a
\* snapshot at an earlier version that no DEL removed
C30_Witness ==
  /\ req[1].pc = "done" /\ req[2].pc = "done"
  /\ req[1].op = "update" /\ req[2].op = "update"
  /\ resp[1].status = 200 /\ resp[2].status = 200 /\ resp[1].version = 3
  /\ notes[1].version = 3
  /\ cache.note[1].exists /\ cache.note[1].version = 1
  /\ ~cache.note[Twin(1)].exists

C32_DeleteHonoursVersion ==
  [][ \A p \in Procs :
        Answered(p) /\ req[p].op = "delete" /\ resp'[p].status = 200 =>
          /\ ParseInt(req[p].ver) = req[p].note.version
          /\ notes'[req[p].id].exists
          /\ notes'[req[p].id].isDeleted
          /\ Rows(req[p].id)' # {} ]_vars

\* C33: when an update, revert or resolveConflict is answered with success and
\* no search is in flight that could write an entry back, no search-result
\* entry of the caller cached before the mutation is left that differs from
\* the result recomputed from the store, so a search issued after the
\* response never shows the note's earlier title or content.
C33_SearchInvalidatedOnModify ==
  [][ \A p \in Procs :
        (/\ Answered(p) /\ resp'[p].status = 200
         /\ req[p].op \in {"update", "revert", "resolve"}
         /\ \A r \in Procs \ {p} : req[r].pc \in {"idle", "done"})
        => \A q \in Queries :
             LET entry == cache'.search[req[p].user][q]
             IN entry.hit => entry.rows = NoteList(1, req[p].user, q) ]_vars

\* the keys note:<n>, note:<n>:versions and user:<u>:notes that cache c holds
CachedKeys(c, n, u) ==
  {k \in KeyKinds : \/ k = "note" /\ c.note[n].exists
                    \/ k = "versions" /\ c.versions[n].hit
                    \/ k = "userNotes" /\ c.userNotes[u].hit}

\* C34: the invalidateAllNoteCache call of a mutation never fails the
\* request, and a DEL that fails does not keep the other keys from being
\* deleted: at most one DEL fails per call (the first throw ends the call),
\* so of the three keys at most one is still cached after the call.
C34_InvalidateEachKey ==
  [][ \A p \in Procs :
        req[p].pc = "invalidate" /\ req[p].op # "create" /\ Moves(p) =>
          /\ resp'[p].status # 500
          /\ Cardinality(CachedKeys(cache, req[p].id, req[p].user)
                           \cap CachedKeys(cache', req[p].id, req[p].user)) <= 1
    ]_vars

\* C35: no NoteVersion row outlives its note: whenever the Note row of an id
\* is gone, no NoteVersion row carries that id, in particular once a permanent
\* delete and a concurrent update, revert, resolveConflict or softDelete of
\* the note have both completed.
C35_NoOrphanedHistory ==
  \A n \in NoteIds : ~notes[n].exists => Rows(n) = {}

\* a permanent delete and an update of the same note, both arrived while the
\* note was at version 1, were both answered with success; the note is gone
\* and so are its rows, the one the update added included
C35_Witness ==
  \E p, q \in Procs :
    /\ req[p].op = "delete" /\ req[p].pc = "done" /\ resp[p].status = 200
    /\ req[q].op = "update" /\ req[q].pc = "done" /\ resp[q].status = 200
    /\ req[p].id = req[q].id
    /\ req[p].arrivalVersion = 1 /\ req[q].arrivalVersion = 1
    /\ ~notes[req[p].id].exists /\ Rows(req[p].id) = {}

\* C36: no two NoteVersion rows of a note carry the same version number,
\* whatever the interleaving of the requests on that note.
C36_UniqueVersionNumbers ==
  \A i, j \in DOMAIN versions :
    versions[i].noteId = versions[j].noteId
      /\ versions[i].version = versions[j].version => i = j

\* two requests of different kinds, both arrived while the note was at
\* version 1 and both answered with success, left rows 1, 2 and 3
C36_Witness ==
  \E p, q \in Procs :
    /\ p # q /\ req[p].id = req[q].id
    /\ req[p].op = "update" /\ req[q].op \in {"revert", "softDelete", "resolve"}
    /\ req[p].pc = "done" /\ req[q].pc = "done"
    /\ resp[p].status = 200 /\ resp[q].status = 200
    /\ req[p].arrivalVersion = 1 /\ req[q].arrivalVersion = 1
    /\ {r.version : r \in Rows(req[p].id)} = {1, 2, 3}
    /\ Cardinality(Rows(req[p].id)) = 3

\* request p is between its arrival and its response
InFlight(p) == req[p].pc \notin {"idle", "done"}

\* p has no open transaction and holds no row lock
Closed(p) == ~tx[p].active /\ \A n \in NoteIds : lock[n] # p

\* C37: under fair scheduling every request in flight is eventually answered,
\* and a request that is not in flight has its transaction ended (committed
\* or rolled back) and holds no lock; no request waits for another forever.
C37_Progress ==
  /\ \A p \in Procs : InFlight(p) ~> (req[p].pc = "done" /\ resp[p].status # 0)
  /\ [](\A p \in Procs : ~InFlight(p) => Closed(p))

\* one request holds the row lock of the note inside its transaction while
\* another waits for it at its locking read
C37_Witness ==
  \E p, q \in Procs :
    /\ p # q /\ req[p].id = req[q].id /\ req[p].id \in NoteIds
    /\ lock[req[p].id] = p /\ tx[p].active /\ InFlight(p)
    /\ req[q].op \in Mutations /\ req[q].pc = "find" /\ tx[q].active

\* no request is in flight
Quiescent == \A p \in Procs : ~InFlight(p)

\* the entries cached for note n and for the collection of user u hold what
\* the store holds
FreshFor(n, u) ==
  /\ cache.note[n].exists => cache.note[n] = notes[n]
  /\ cache.versions[n].hit => cache.versions[n].rows = VersionList(n)
  /\ cache.userNotes[u].hit => cache.userNotes[u].rows = NoteList(1, u, "")

====
